---------------------------- MODULE Spec2Model ----------------------------
(***************************************************************************)
(* A model of wooting-aim v0.7 (src/src/main.c, src/src/hid_writer.c).     *)
(*                                                                         *)
(* Units.  The performance counter is modelled as an integer number of     *)
(* microseconds, so every duration the code computes in milliseconds       *)
(* ((now - then) * 1000.0 / freq) is held here in microseconds; a field    *)
(* that the code names *_ms keeps its name and holds microseconds.  Analog *)
(* key depths (0.0 .. 1.0) are integers in hundredths, so DEAD_ZONE (0.01) *)
(* is 1.  Actuation and rapid-trigger depths (mm) are integers in          *)
(* thousandths of a millimetre.  Velocities (units/s) are integers in      *)
(* hundredths of a unit per second; products are divided as they are       *)
(* formed (truncating) to stay within 32-bit integers.                     *)
(***************************************************************************)
EXTENDS Integers, Sequences, FiniteSets, TLC

VARIABLES
    now,        \* QueryPerformanceCounter, in microseconds
    frame,      \* ctx.frame: main-loop iterations done
    key,        \* ctx.d / ctx.a: the current analog sample of the horizontal axis
    prev,       \* ctx.prev_d / ctx.prev_a: the previous iteration's sample
    h,          \* ctx.h: the horizontal Axis
    crouching,  \* ctx.crouching
    vkey,       \* ctx.w / ctx.s: the current analog sample of the vertical axis
    v,          \* ctx.v: the vertical Axis
    vel_v,      \* ctx.vel_v: the vertical VelEstimator
    vel_h,      \* ctx.vel_h: the horizontal VelEstimator
    vel_timer,  \* main's vel_timer: when the velocity was last updated
    snap,       \* ctx.weapon_cat, weapon_name, round_phase, weapon_speed, gsi_active
    g_gsi,      \* the game-state cache shared with the ingest thread
    w,          \* ctx's writer fields: target_*, current_*, needs_write,
                \* last_write_time, write_count
    emits,      \* history: the clock values do_write read when it went on to write
    wire,       \* history: the data frames hid_write handed to the device, in order
    pc,         \* where the main thread and the console-handler thread are
    args,       \* main's adaptive_mode, watch_mode, demo_mode
    aggro,      \* the demo loop's local aggro
    event,      \* the console event the handler was called with
    g_running,  \* static volatile bool g_running
    g_hid,      \* static WootingHID *g_hid: "null", "open", or "closed" (freed)
    g_adaptive, \* static bool g_adaptive
    g_gsi_thread, \* static HANDLE g_gsi_thread: "null", "open", or "closed"
    wsa,        \* Winsock's start-up count of the process
    sdk,        \* the analog SDK: "none", "init" or "uninit"
    rel,        \* history: how often each resource was released
    dev,        \* the WootingHID session: handle and active_profile
    feat,       \* history: the commands and handshake frames given to hidapi, in order
    hs,         \* what wooting_hid_handshake returned: "none" before the call, "ok", "failed"
    rc,         \* what main returns: -1 while it has not returned
    arg,        \* the inputs a function is applied to on its own, <<>> when none
    res         \* what the function returned, <<>> before it is applied

pureVars == <<arg, res>>
sessVars == <<dev, feat, hs, rc>>
axisVars == <<key, prev, h, crouching, vkey, v>>
velVars == <<vel_h, vel_v, vel_timer>>
gsiVars == <<snap, g_gsi>>
writerVars == <<w, emits>>
procVars == <<pc, args, aggro, event, g_running, g_hid, g_adaptive,
              g_gsi_thread, wsa, sdk, rel>>

vars == <<now, frame, key, prev, h, crouching, vkey, v, vel_h, vel_v, vel_timer, snap, g_gsi, w, emits,
          wire, pc, args, aggro, event, g_running, g_hid, g_adaptive,
          g_gsi_thread, wsa, sdk, rel, dev, feat, hs, rc, arg, res>>

---------------------------------------------------------------------------
(* Bounds of the model *)

\* main-loop iterations explored
MaxFrames == 5
\* the performance counter's value when the main loop is set up
StartTime == 1000
\* main-loop iterations explored by the jiggle specification
MaxJiggleFrames == 7
\* main-loop iterations explored by the whole-loop specification
MaxLoopFrames == 3
\* main-loop iterations explored by the velocity specification
MaxVelFrames == 5
\* main-loop iterations explored by the writer specification
MaxWriterFrames == 5
\* main-loop iterations explored by the process specification
MaxLifeFrames == 3
\* data frames after which the loops of the process specification start no write
MaxWire == 4

---------------------------------------------------------------------------
(* Program constants *)

\* #define DEAD_ZONE 0.01f, in hundredths of full travel
DEAD_ZONE == 1
\* #define JIGGLE_WINDOW_MS 300.0, in microseconds
JIGGLE_WINDOW_MS == 300000
\* #define JIGGLE_MIN_COUNT 2
JIGGLE_MIN_COUNT == 2
\* #define JIGGLE_PREARM_MS 300.0, in microseconds
JIGGLE_PREARM_MS == 300000
\* ax->jiggle_idx = (ax->jiggle_idx + 1) & 0x7FFFFFFF
IDX_MASK == 2147483647
\* g_cfg.predict_threshold = 0.70f, in hundredths
predict_threshold == 70
\* g_cfg.predict_min_peak = 0.30f, in hundredths of full travel
predict_min_peak == 30

\* typedef enum AxisState
S_IDLE == "IDLE"
S_STRAFE_POS == "STRAFE_POS"
S_STRAFE_NEG == "STRAFE_NEG"
S_COUNTER_POS == "COUNTER_POS"
S_COUNTER_NEG == "COUNTER_NEG"

AxisStates == {S_IDLE, S_STRAFE_POS, S_STRAFE_NEG, S_COUNTER_POS, S_COUNTER_NEG}

IsCounter(s) == s \in {S_COUNTER_POS, S_COUNTER_NEG}

---------------------------------------------------------------------------
(* Inputs the model draws *)

\* analog depths read from the SDK (negative readings are clamped to 0 by main)
Depths == {0, 1, 50, 80}
\* time passing between two main-loop iterations, in microseconds
AxisDts == {50000, 200000}

---------------------------------------------------------------------------
(* AXIS STATE MACHINE *)

\* Axis ax = {0}
AxisZero ==
    [ state |-> S_IDLE, prev |-> S_IDLE,
      pos_peak |-> 0, neg_peak |-> 0,
      predictive |-> FALSE,
      counter_start |-> 0, counter_ms |-> 0,
      counter_count |-> 0, counter_total_ms |-> 0,
      jiggle_times |-> <<0, 0, 0, 0>>, jiggle_idx |-> 0,
      is_jiggle |-> FALSE, jiggle_last |-> 0 ]

\* bool pp = pos > DEAD_ZONE
Active(depth) == depth > DEAD_ZONE

\* bool pr = pos > DEAD_ZONE && prev_pos <= DEAD_ZONE
Rising(cur, prv) == cur > DEAD_ZONE /\ prv <= DEAD_ZONE

\* axis_idle whose first test forgets that neg must be inactive
axis_idle_any(ax, pos, neg) ==
    LET pp == Active(pos)
        np == Active(neg)
        a1 == IF pp
              THEN [ax EXCEPT !.state = S_STRAFE_POS, !.pos_peak = pos, !.neg_peak = 0]
              ELSE ax
    IN  IF np /\ ~pp
        THEN [a1 EXCEPT !.state = S_STRAFE_NEG, !.neg_peak = neg, !.pos_peak = 0]
        ELSE a1

\* case S_IDLE
axis_idle(ax, pos, neg) ==
    LET pp == Active(pos)
        np == Active(neg)
        a1 == IF pp /\ ~np
              THEN [ax EXCEPT !.state = S_STRAFE_POS, !.pos_peak = pos, !.neg_peak = 0]
              ELSE ax
    IN  IF np /\ ~pp
        THEN [a1 EXCEPT !.state = S_STRAFE_NEG, !.neg_peak = neg, !.pos_peak = 0]
        ELSE a1

\* axis_strafe_pos without the QueryPerformanceCounter(&ax->counter_start)
axis_strafe_pos_nostart(ax, pos, neg, prev_neg, t) ==
    LET pp == Active(pos)
        np == Active(neg)
        nr == Rising(neg, prev_neg)
        peak == IF pos > ax.pos_peak THEN pos ELSE ax.pos_peak
        a1 == [ax EXCEPT !.pos_peak = peak,
                         !.predictive = IF peak > predict_min_peak
                                           /\ pos * 100 < peak * predict_threshold
                                        THEN TRUE ELSE @]
    IN  IF ~pp /\ ~np
        THEN [ax EXCEPT !.state = S_IDLE]
        ELSE IF nr
             THEN [a1 EXCEPT !.state = S_COUNTER_NEG]
             ELSE a1

\* case S_STRAFE_POS
axis_strafe_pos(ax, pos, neg, prev_neg, t) ==
    LET pp == Active(pos)
        np == Active(neg)
        nr == Rising(neg, prev_neg)
        peak == IF pos > ax.pos_peak THEN pos ELSE ax.pos_peak
        a1 == [ax EXCEPT !.pos_peak = peak,
                         !.predictive = IF peak > predict_min_peak
                                           /\ pos * 100 < peak * predict_threshold
                                        THEN TRUE ELSE @]
    IN  IF ~pp /\ ~np
        THEN [ax EXCEPT !.state = S_IDLE]
        ELSE IF nr
             THEN [a1 EXCEPT !.state = S_COUNTER_NEG, !.counter_start = t]
             ELSE a1

\* axis_strafe_neg that never raises neg_peak
axis_strafe_neg_nopeak(ax, pos, neg, prev_pos, t) ==
    LET pp == Active(pos)
        np == Active(neg)
        pr == Rising(pos, prev_pos)
        peak == ax.neg_peak
        a1 == [ax EXCEPT !.predictive = IF peak > predict_min_peak
                                           /\ neg * 100 < peak * predict_threshold
                                        THEN TRUE ELSE @]
    IN  IF ~pp /\ ~np
        THEN [ax EXCEPT !.state = S_IDLE]
        ELSE IF pr
             THEN [a1 EXCEPT !.state = S_COUNTER_POS, !.counter_start = t]
             ELSE a1

\* case S_STRAFE_NEG
axis_strafe_neg(ax, pos, neg, prev_pos, t) ==
    LET pp == Active(pos)
        np == Active(neg)
        pr == Rising(pos, prev_pos)
        peak == IF neg > ax.neg_peak THEN neg ELSE ax.neg_peak
        a1 == [ax EXCEPT !.neg_peak = peak,
                         !.predictive = IF peak > predict_min_peak
                                           /\ neg * 100 < peak * predict_threshold
                                        THEN TRUE ELSE @]
    IN  IF ~pp /\ ~np
        THEN [ax EXCEPT !.state = S_IDLE]
        ELSE IF pr
             THEN [a1 EXCEPT !.state = S_COUNTER_POS, !.counter_start = t]
             ELSE a1

\* axis_counter that leaves a COUNTER state only when both keys are released
axis_counter_sticky(ax, pos, neg, t) ==
    LET pp == Active(pos)
        np == Active(neg)
        a1 == [ax EXCEPT !.counter_ms = t - ax.counter_start]
    IN  IF ~pp /\ ~np THEN [a1 EXCEPT !.state = S_IDLE] ELSE a1

\* axis_counter without the release to IDLE
axis_counter_noidle(ax, pos, neg, t) ==
    LET pp == Active(pos)
        np == Active(neg)
        a1 == [ax EXCEPT !.counter_ms = t - ax.counter_start]
    IN  IF pp /\ ~np THEN [a1 EXCEPT !.state = S_STRAFE_POS, !.pos_peak = pos]
        ELSE IF np /\ ~pp THEN [a1 EXCEPT !.state = S_STRAFE_NEG, !.neg_peak = neg]
        ELSE a1

\* case S_COUNTER_POS: case S_COUNTER_NEG
axis_counter(ax, pos, neg, t) ==
    LET pp == Active(pos)
        np == Active(neg)
        a1 == [ax EXCEPT !.counter_ms = t - ax.counter_start]
    IN  IF ~pp /\ ~np THEN [a1 EXCEPT !.state = S_IDLE]
        ELSE IF pp /\ ~np THEN [a1 EXCEPT !.state = S_STRAFE_POS, !.pos_peak = pos]
        ELSE IF np /\ ~pp THEN [a1 EXCEPT !.state = S_STRAFE_NEG, !.neg_peak = neg]
        ELSE a1

\* switch (ax->state)
axis_switch(ax, pos, neg, prev_pos, prev_neg, t) ==
    CASE ax.state = S_IDLE       -> axis_idle(ax, pos, neg)
      [] ax.state = S_STRAFE_POS -> axis_strafe_pos(ax, pos, neg, prev_neg, t)
      [] ax.state = S_STRAFE_NEG -> axis_strafe_neg(ax, pos, neg, prev_pos, t)
      [] OTHER                   -> axis_counter(ax, pos, neg, t)

\* axis_stats counting every change of state
axis_stats_onchange(ax) ==
    IF ax.state # ax.prev
    THEN [ax EXCEPT !.counter_count = ax.counter_count + 1,
                    !.counter_total_ms = ax.counter_total_ms + ax.counter_ms]
    ELSE ax

\* the session statistics kept on leaving a COUNTER state
axis_stats(ax) ==
    IF ax.state # ax.prev /\ IsCounter(ax.prev)
    THEN [ax EXCEPT !.counter_count = ax.counter_count + 1,
                    !.counter_total_ms = ax.counter_total_ms + ax.counter_ms]
    ELSE ax

\* the number of ring entries younger than JIGGLE_WINDOW_MS
jiggle_recent(times, t) ==
    Cardinality({i \in 1..4 : times[i] # 0 /\ t - times[i] < JIGGLE_WINDOW_MS})

\* axis_jiggle setting is_jiggle on every entry, whatever the ring holds
axis_jiggle_single(ax, t) ==
    IF ax.state # ax.prev /\ IsCounter(ax.state)
    THEN [ax EXCEPT !.jiggle_times = [ax.jiggle_times EXCEPT ![(ax.jiggle_idx % 4) + 1] = t],
                    !.jiggle_idx = IF ax.jiggle_idx = IDX_MASK THEN 0
                                   ELSE ax.jiggle_idx + 1,
                    !.is_jiggle = TRUE, !.jiggle_last = t]
    ELSE ax

\* Jiggle peek: record counter-strafe entry timestamps
axis_jiggle(ax, t) ==
    IF ax.state # ax.prev /\ IsCounter(ax.state)
    THEN LET times == [ax.jiggle_times EXCEPT ![(ax.jiggle_idx % 4) + 1] = t]
             a1 == [ax EXCEPT !.jiggle_times = times,
                              !.jiggle_idx = IF ax.jiggle_idx = IDX_MASK THEN 0
                                             ELSE ax.jiggle_idx + 1]
         IN  IF jiggle_recent(times, t) >= JIGGLE_MIN_COUNT
             THEN [a1 EXCEPT !.is_jiggle = TRUE, !.jiggle_last = t]
             ELSE a1
    ELSE ax

\* Expire jiggle mode
axis_expire(ax, t) ==
    IF ax.is_jiggle /\ t - ax.jiggle_last > JIGGLE_PREARM_MS
    THEN [ax EXCEPT !.is_jiggle = FALSE]
    ELSE ax

\* axis_update without the reset of predictive at its start
axis_update_sticky(ax, pos, neg, prev_pos, prev_neg, t) ==
    LET a0 == [ax EXCEPT !.prev = ax.state]
        a1 == axis_switch(a0, pos, neg, prev_pos, prev_neg, t)
        a2 == axis_stats(a1)
        a3 == axis_jiggle(a2, t)
    IN  axis_expire(a3, t)

\* static void axis_update(Axis *ax, float pos, float neg, float prev_pos, float prev_neg, double freq)
axis_update(ax, pos, neg, prev_pos, prev_neg, t) ==
    LET a0 == [ax EXCEPT !.prev = ax.state, !.predictive = FALSE]
        a1 == axis_switch(a0, pos, neg, prev_pos, prev_neg, t)
        a2 == axis_stats(a1)
        a3 == axis_jiggle(a2, t)
    IN  axis_expire(a3, t)

---------------------------------------------------------------------------
(* WEAPON TABLES AND THE GAME-STATE CACHE *)

\* typedef enum WeaponCategory
WCAT_RIFLE == "RIFLE"
WCAT_AWP == "AWP"
WCAT_PISTOL == "PISTOL"
WCAT_SMG == "SMG"
WCAT_KNIFE == "KNIFE"
WCAT_OTHER == "OTHER"

\* static WeaponCategory categorize_weapon_type(const char *type)
categorize_weapon_type(type) ==
    CASE type = "" -> WCAT_OTHER
      [] type \in {"Rifle", "Machine Gun"} -> WCAT_RIFLE
      [] type = "SniperRifle" -> WCAT_AWP
      [] type = "Pistol" -> WCAT_PISTOL
      [] type \in {"Submachine Gun", "Shotgun"} -> WCAT_SMG
      [] type = "Knife" -> WCAT_KNIFE
      [] OTHER -> WCAT_OTHER

\* return 225.0f, in hundredths of a unit per second
DEFAULT_SPEED == 22500

\* static float weapon_max_speed(const char *name), on the names the model feeds
weapon_max_speed(name) ==
    CASE name = "" -> DEFAULT_SPEED
      [] name = "weapon_knife" -> 25000
      [] name = "weapon_awp" -> 20000
      [] name = "weapon_ak47" -> 21500
      [] name = "weapon_negev" -> 15000
      [] name = "weapon_hegrenade" -> 24500
      [] OTHER -> DEFAULT_SPEED

\* static GSIState g_gsi = {0}; the category 0 is WCAT_RIFLE; lock is the
\* critical section after InitializeCriticalSection, held by no thread
GsiZero ==
    [ weapon_name |-> "", weapon_type |-> "", weapon_cat |-> WCAT_RIFLE,
      weapon_speed |-> 0, round_phase |-> "", health |-> 0, connected |-> FALSE,
      lock |-> "free" ]

\* the GSI fields of AimContext ctx = {0}
SnapZero ==
    [ weapon_cat |-> WCAT_RIFLE, weapon_name |-> "", round_phase |-> "",
      weapon_speed |-> 0, gsi_active |-> FALSE ]

\* parse_gsi_json, "Update shared state": p is what the scan extracted
\* (weapon_name, weapon_type, round_phase; health, -1 when none was found)
gsi_store(g, p) ==
    LET g1 == IF p.weapon_name # ""
              THEN [g EXCEPT !.weapon_name = p.weapon_name,
                             !.weapon_type = p.weapon_type,
                             !.weapon_cat = categorize_weapon_type(p.weapon_type),
                             !.weapon_speed = weapon_max_speed(p.weapon_name)]
              ELSE g
        g2 == IF p.round_phase # "" THEN [g1 EXCEPT !.round_phase = p.round_phase] ELSE g1
        g3 == IF p.health >= 0 THEN [g2 EXCEPT !.health = p.health] ELSE g2
    IN  [g3 EXCEPT !.connected = TRUE]

\* gsi_snapshot keeping the category the context started with
gsi_snapshot_stalecat(g) ==
    [ weapon_cat |-> WCAT_RIFLE, weapon_name |-> g.weapon_name,
      round_phase |-> g.round_phase, weapon_speed |-> g.weapon_speed,
      gsi_active |-> g.connected ]

\* update_targets, "Read GSI state (thread-safe)"
gsi_snapshot(g) ==
    [ weapon_cat |-> g.weapon_cat, weapon_name |-> g.weapon_name,
      round_phase |-> g.round_phase, weapon_speed |-> g.weapon_speed,
      gsi_active |-> g.connected ]

---------------------------------------------------------------------------
(* VELOCITY ESTIMATION *)

\* #define SV_FRICTION 5.2f, in tenths
SV_FRICTION == 52
\* #define SV_ACCELERATE 5.5f, in tenths
SV_ACCELERATE == 55
\* #define SV_STOPSPEED 80.0f, in hundredths of a unit per second
SV_STOPSPEED == 8000
\* if (elapsed <= 0 || elapsed > 0.1), in microseconds
MAX_ELAPSED == 100000
\* if (fabsf(ve->vel) < 0.5f), in hundredths of a unit per second
SNAP_SPEED == 50

Abs(x) == IF x < 0 THEN -x ELSE x

\* Friction proportional to the speed at every speed, without the
\* SV_STOPSPEED floor of the control speed
vel_friction_nostop(vel, dt) ==
    LET speed == Abs(vel)
        drop == (speed * ((SV_FRICTION * dt) \div 100)) \div 100000
        new_speed == IF speed - drop < 0 THEN 0 ELSE speed - drop
    IN  IF speed > 0
        THEN (IF vel < 0 THEN -new_speed ELSE new_speed)
        ELSE vel

\* Apply friction (Source 2 model); dt in microseconds
vel_friction(vel, dt) ==
    LET speed == Abs(vel)
        control == IF speed < SV_STOPSPEED THEN SV_STOPSPEED ELSE speed
        drop == (control * ((SV_FRICTION * dt) \div 100)) \div 100000
        new_speed == IF speed - drop < 0 THEN 0 ELSE speed - drop
    IN  IF speed > 0
        THEN (IF vel < 0 THEN -new_speed ELSE new_speed)
        ELSE vel

\* Apply acceleration - binary (full speed or nothing)
vel_accelerate(vel, pos_key, neg_key, max_speed, dt) ==
    LET wish == IF pos_key /\ ~neg_key THEN 1
                ELSE IF neg_key /\ ~pos_key THEN -1 ELSE 0
        add_speed == max_speed - vel * wish
        full == (((SV_ACCELERATE * dt) \div 100) * max_speed) \div 100000
        accel_speed == IF full > add_speed THEN add_speed ELSE full
    IN  IF wish # 0 /\ add_speed > 0 THEN vel + accel_speed * wish ELSE vel

\* Clamp
vel_clamp(vel, max_speed) ==
    LET v1 == IF Abs(vel) > max_speed
              THEN (IF vel > 0 THEN max_speed ELSE -max_speed)
              ELSE vel
    IN  IF Abs(v1) < SNAP_SPEED THEN 0 ELSE v1

\* static void vel_update(VelEstimator *ve, float pos_analog, float neg_analog,
\*                        float max_speed, LARGE_INTEGER now, double freq)
vel_update(ve, pos_analog, neg_analog, max_speed, t) ==
    LET elapsed == t - ve.last_update
        v1 == vel_friction(ve.vel, elapsed)
        v2 == vel_accelerate(v1, Active(pos_analog), Active(neg_analog), max_speed, elapsed)
    IN  IF elapsed <= 0 \/ elapsed > MAX_ELAPSED
        THEN [ve EXCEPT !.max_speed = max_speed, !.last_update = t]
        ELSE [vel |-> vel_clamp(v2, max_speed), max_speed |-> max_speed, last_update |-> t]

\* float max_spd = ctx.weapon_speed > 0 ? ctx.weapon_speed : 225.0f
max_spd(weapon_speed) == IF weapon_speed > 0 THEN weapon_speed ELSE DEFAULT_SPEED

\* if (vel_elapsed >= 1.0), in microseconds
VEL_PERIOD == 1000

---------------------------------------------------------------------------
(* THE DEVICE WRITER *)

\* .ap_normal = 1.2f, in thousandths of a millimetre
ap_normal == 1200
\* .ap_aggro = 0.4f
ap_aggro == 400
\* .rt_normal = 1.0f
rt_normal == 1000
\* .rt_aggro = 0.1f
rt_aggro == 100
\* .write_interval_ms = 50.0f, in microseconds
write_interval_ms == 50000

\* #define PROFILE_IDX 0
PROFILE_IDX == 0
\* #define CMD_ACTUATION 21
CMD_ACTUATION == 21
\* #define CMD_RAPID_TRIGGER 25
CMD_RAPID_TRIGGER == 25

\* #define K_W 0 .. K_D 3, as indices of a four-tuple
K_W == 1
K_A == 2
K_S == 3
K_D == 4

\* hid_writer.h: the matrix positions of W, A, S, D
KEY_ROW == <<2, 3, 3, 3>>
KEY_COL == <<2, 1, 2, 3>>

\* KeySetting { row, col, mm } of one of the four keys
KeySetting(k, mm) == [row |-> KEY_ROW[k], col |-> KEY_COL[k], mm |-> mm]

\* the four-entry KeySetting arrays do_write and restore_and_cleanup build
KeySettings4(vals) == [k \in 1..4 |-> KeySetting(k, vals[k])]

Fill4(x) == <<x, x, x, x>>

\* The data frame a write hands to hid_write: send_data's command and
\* options bytes and the key settings encoded in the body
DataFrame(cmd, profile_idx, keys, save) ==
    [cmd |-> cmd, options |-> (IF save THEN 1 ELSE 0) + 2 * profile_idx, keys |-> keys]

\* wooting_hid_write_actuation(dev, profile_idx, keys, count, save)
write_actuation(profile_idx, keys, save) ==
    DataFrame(CMD_ACTUATION, profile_idx, keys, save)

\* wooting_hid_write_rt(dev, profile_idx, keys, count, save)
write_rt(profile_idx, keys, save) ==
    DataFrame(CMD_RAPID_TRIGGER, profile_idx, keys, save)

\* main's set-up of the writer fields at clock value t
WriterZero(t) ==
    [ target_ap |-> Fill4(ap_normal), target_rt |-> Fill4(rt_normal),
      current_ap |-> Fill4(ap_normal), current_rt |-> Fill4(rt_normal),
      needs_write |-> FALSE, last_write_time |-> t, write_count |-> 0 ]

\* update_targets, check_changed: ap and rt are the depths it computed
check_changed(wr, ap, rt) ==
    IF ap # wr.target_ap \/ rt # wr.target_rt
    THEN [wr EXCEPT !.target_ap = ap, !.target_rt = rt, !.needs_write = TRUE]
    ELSE wr

\* do_write without the comparison of elapsed with write_interval_ms
do_write_due_unlimited(wr, hid, t) ==
    wr.needs_write /\ hid # "null"

\* do_write_due writing only once more than the interval has passed
do_write_due_late(wr, hid, t) ==
    /\ wr.needs_write /\ hid # "null"
    /\ ~(t - wr.last_write_time <= write_interval_ms)

\* do_write's early returns: TRUE when it goes on to write at clock value t
do_write_due(wr, hid, t) ==
    /\ wr.needs_write /\ hid # "null"
    /\ ~(t - wr.last_write_time < write_interval_ms)

\* do_write_done leaving current as it was
do_write_done_nocopy(wr, t) ==
    [wr EXCEPT !.needs_write = FALSE, !.last_write_time = t,
               !.write_count = wr.write_count + 1]

\* do_write after its two writes
do_write_done(wr, t) ==
    [wr EXCEPT !.current_ap = wr.target_ap, !.current_rt = wr.target_rt,
               !.needs_write = FALSE, !.last_write_time = t,
               !.write_count = wr.write_count + 1]

\* the releases counted: wooting_hid_close, CloseHandle(g_gsi_thread),
\* WSACleanup, wooting_analog_uninitialise
RelZero == [hid |-> 0, thread |-> 0, wsa |-> 0, sdk |-> 0]

---------------------------------------------------------------------------
(* THE POLICY *)

\* #define PHASE_ULTRA_MS 80.0, in microseconds
PHASE_ULTRA_MS == 80000
\* #define PHASE_DECAY_MS 200.0, in microseconds
PHASE_DECAY_MS == 200000
\* #define VEL_AGGRO_ZONE 0.50f, in thousandths
VEL_AGGRO_ZONE == 500
\* #define VEL_MIN_AP_FACTOR 0.5f, in thousandths
VEL_MIN_AP_FACTOR == 500
\* 0.15f, the least actuation point of vel_scale_ap and phase_decay_ap, in
\* thousandths of a millimetre
MIN_AP == 150
\* .crouch_rt_factor = 0.5f, in thousandths
crouch_rt_factor == 500
\* ap[i] + (g_cfg.ap_normal - ap[i]) * 0.3f, in tenths
CROUCH_AP_RELAX == 3
\* float threshold = max_spd * 0.34f, in hundredths
ACCURACY_FRACTION == 34
\* the unit of a ratio or factor kept in thousandths
ONE == 1000

\* ws_adaptive=1 in wooting-aim.cfg
ws_adaptive_on == TRUE

\* .ws_adaptive = 0, .jiggle_enabled = 1, .vel_scale_enabled = 1,
\* .vel_enabled = 1, .phase_decay = 1
ws_adaptive == FALSE
jiggle_enabled == TRUE
vel_scale_enabled == TRUE
vel_enabled == TRUE
phase_decay == TRUE

\* .weapon = { [WCAT_RIFLE] = { 0.4f, 0.1f }, ... }
weapon_profile ==
    [c \in {WCAT_RIFLE, WCAT_AWP, WCAT_PISTOL, WCAT_SMG, WCAT_KNIFE, WCAT_OTHER} |->
        CASE c = WCAT_RIFLE -> [ap |-> 400, rt |-> 100]
          [] c = WCAT_AWP -> [ap |-> 800, rt |-> 400]
          [] c = WCAT_PISTOL -> [ap |-> 300, rt |-> 100]
          [] c = WCAT_SMG -> [ap |-> 500, rt |-> 200]
          [] c = WCAT_KNIFE -> [ap |-> 1500, rt |-> 1000]
          [] c = WCAT_OTHER -> [ap |-> 1000, rt |-> 500]]

\* static Config g_cfg = { ... }: the fields the base selection reads
g_cfg == [ap_aggro |-> ap_aggro, rt_aggro |-> rt_aggro, weapon |-> weapon_profile]

\* config_load, one line "key=val" of wooting-aim.cfg, for the keys of
\* the base selection; any other key leaves these fields alone
config_load(cfg, k, val) ==
    CASE k = "ap_aggro" -> [cfg EXCEPT !.ap_aggro = val]
      [] k = "rt_aggro" -> [cfg EXCEPT !.rt_aggro = val]
      [] k = "rifle_ap" -> [cfg EXCEPT !.weapon[WCAT_RIFLE].ap = val]
      [] k = "rifle_rt" -> [cfg EXCEPT !.weapon[WCAT_RIFLE].rt = val]
      [] k = "awp_ap" -> [cfg EXCEPT !.weapon[WCAT_AWP].ap = val]
      [] k = "awp_rt" -> [cfg EXCEPT !.weapon[WCAT_AWP].rt = val]
      [] OTHER -> cfg

\* static void get_base_aggro(AimContext *ctx, float *ap, float *rt), g_cfg
\* as loaded
get_base_aggro_cfg(cfg, sn) ==
    IF sn.gsi_active /\ sn.weapon_cat \in DOMAIN cfg.weapon
    THEN cfg.weapon[sn.weapon_cat]
    ELSE [ap |-> cfg.ap_aggro, rt |-> cfg.rt_aggro]

\* get_base_aggro with the configuration as shipped
get_base_aggro(sn) == get_base_aggro_cfg(g_cfg, sn)

\* static float vel_scale_ap(float base_ap, float vel_ratio); vel_ratio in
\* thousandths
vel_scale_ap(base_ap, vel_ratio) ==
    LET t == ((vel_ratio - VEL_AGGRO_ZONE) * ONE) \div (ONE - VEL_AGGRO_ZONE)
        factor == ONE - (t * (ONE - VEL_MIN_AP_FACTOR)) \div ONE
        result == (base_ap * factor) \div ONE
    IN  IF vel_ratio < VEL_AGGRO_ZONE THEN base_ap
        ELSE IF result < MIN_AP THEN MIN_AP ELSE result

\* phase_decay_ap holding the least actuation point through the whole window
phase_decay_ap_held(base_ap, counter_ms) ==
    IF counter_ms <= PHASE_DECAY_MS THEN MIN_AP ELSE base_ap

\* static float phase_decay_ap(float base_ap, double counter_ms); counter_ms
\* in microseconds
phase_decay_ap(base_ap, counter_ms) ==
    IF counter_ms < PHASE_ULTRA_MS THEN MIN_AP
    ELSE IF counter_ms > PHASE_DECAY_MS THEN base_ap
    ELSE MIN_AP + ((counter_ms - PHASE_ULTRA_MS) * (base_ap - MIN_AP))
                      \div (PHASE_DECAY_MS - PHASE_ULTRA_MS)

\* sqrtf on integers: the largest r with r * r <= n, sought in lo..hi
RECURSIVE isqrt(_, _, _)
isqrt(n, lo, hi) ==
    IF lo >= hi THEN lo
    ELSE LET mid == (lo + hi + 1) \div 2
         IN  IF mid * mid <= n THEN isqrt(n, mid, hi) ELSE isqrt(n, lo, mid - 1)

\* the largest root isqrt is asked for: velocities stay below 400 units per second
MAX_ROOT == 40000

\* update_targets, "Velocity-aware AP scaling": vel_ratio in thousandths
vel_ratio_of(vh, vv, weapon_speed) ==
    LET total_vel == isqrt(vh * vh + vv * vv, 0, MAX_ROOT)
        threshold == (max_spd(weapon_speed) * ACCURACY_FRACTION) \div 100
        ratio == IF threshold > 0 THEN (total_vel * ONE) \div threshold ELSE 0
    IN  IF ratio > ONE THEN ONE ELSE ratio

\* axis_targets with the opposite key's RT left alone on a predictive tick
axis_targets_nopredict(tg, ax, kpos, kneg, vel_ap, base_rt) ==
    LET jig == jiggle_enabled /\ ax.is_jiggle
        c_ap == IF phase_decay THEN phase_decay_ap(vel_ap, ax.counter_ms) ELSE vel_ap
    IN  CASE ax.state = S_IDLE ->
                IF jig
                THEN [ap |-> [tg.ap EXCEPT ![kneg] = vel_ap, ![kpos] = vel_ap],
                      rt |-> [tg.rt EXCEPT ![kneg] = base_rt, ![kpos] = base_rt]]
                ELSE tg
          [] ax.state = S_STRAFE_POS ->
                [ap |-> [tg.ap EXCEPT ![kneg] = vel_ap],
                 rt |-> [tg.rt EXCEPT ![kpos] = base_rt,
                                      ![kneg] = IF jig THEN base_rt ELSE @]]
          [] ax.state = S_STRAFE_NEG ->
                [ap |-> [tg.ap EXCEPT ![kpos] = vel_ap],
                 rt |-> [tg.rt EXCEPT ![kneg] = base_rt,
                                      ![kpos] = IF jig THEN base_rt ELSE @]]
          [] ax.state = S_COUNTER_POS ->
                [ap |-> [tg.ap EXCEPT ![kpos] = c_ap],
                 rt |-> [tg.rt EXCEPT ![kpos] = base_rt, ![kneg] = base_rt]]
          [] ax.state = S_COUNTER_NEG ->
                [ap |-> [tg.ap EXCEPT ![kneg] = c_ap],
                 rt |-> [tg.rt EXCEPT ![kneg] = base_rt, ![kpos] = base_rt]]

\* update_targets, the switch on one axis: kpos and kneg are its keys
axis_targets(tg, ax, kpos, kneg, vel_ap, base_rt) ==
    LET jig == jiggle_enabled /\ ax.is_jiggle
        c_ap == IF phase_decay THEN phase_decay_ap(vel_ap, ax.counter_ms) ELSE vel_ap
    IN  CASE ax.state = S_IDLE ->
                IF jig
                THEN [ap |-> [tg.ap EXCEPT ![kneg] = vel_ap, ![kpos] = vel_ap],
                      rt |-> [tg.rt EXCEPT ![kneg] = base_rt, ![kpos] = base_rt]]
                ELSE tg
          [] ax.state = S_STRAFE_POS ->
                [ap |-> [tg.ap EXCEPT ![kneg] = vel_ap],
                 rt |-> [tg.rt EXCEPT ![kpos] = base_rt,
                                      ![kneg] = IF ax.predictive \/ jig THEN base_rt ELSE @]]
          [] ax.state = S_STRAFE_NEG ->
                [ap |-> [tg.ap EXCEPT ![kpos] = vel_ap],
                 rt |-> [tg.rt EXCEPT ![kneg] = base_rt,
                                      ![kpos] = IF ax.predictive \/ jig THEN base_rt ELSE @]]
          [] ax.state = S_COUNTER_POS ->
                [ap |-> [tg.ap EXCEPT ![kpos] = c_ap],
                 rt |-> [tg.rt EXCEPT ![kpos] = base_rt, ![kneg] = base_rt]]
          [] ax.state = S_COUNTER_NEG ->
                [ap |-> [tg.ap EXCEPT ![kneg] = c_ap],
                 rt |-> [tg.rt EXCEPT ![kneg] = base_rt, ![kpos] = base_rt]]

\* crouch_targets relaxing the actuation point of every key, above ap_normal too
crouch_targets_everykey(tg, base_rt) ==
    [ap |-> [i \in 1..4 |->
                tg.ap[i] + ((ap_normal - tg.ap[i]) * CROUCH_AP_RELAX) \div 10],
     rt |-> [i \in 1..4 |->
                LET crt == (tg.rt[i] * crouch_rt_factor) \div ONE
                IN  IF crt < base_rt THEN base_rt ELSE crt]]

\* update_targets, "Crouch optimization"
crouch_targets(tg, base_rt) ==
    [ap |-> [i \in 1..4 |->
                IF tg.ap[i] < ap_normal
                THEN tg.ap[i] + ((ap_normal - tg.ap[i]) * CROUCH_AP_RELAX) \div 10
                ELSE tg.ap[i]],
     rt |-> [i \in 1..4 |->
                LET crt == (tg.rt[i] * crouch_rt_factor) \div ONE
                IN  IF crt < base_rt THEN base_rt ELSE crt]]

\* update_targets without the early exit for freezetime and non-combat weapons
update_targets_always(sn, hh, vv, vh, vvel, crouch) ==
    LET normal == [ap |-> Fill4(ap_normal), rt |-> Fill4(rt_normal)]
        base == get_base_aggro(sn)
        vel_ap == IF vel_scale_enabled /\ vel_enabled
                  THEN vel_scale_ap(base.ap, vel_ratio_of(vh, vvel, sn.weapon_speed))
                  ELSE base.ap
        t1 == axis_targets(normal, hh, K_D, K_A, vel_ap, base.rt)
        t2 == IF ws_adaptive THEN axis_targets(t1, vv, K_W, K_S, vel_ap, base.rt) ELSE t1
    IN  IF crouch THEN crouch_targets(t2, base.rt) ELSE t2

\* static void update_targets(AimContext *ctx), after the snapshot sn was
\* taken and up to check_changed: the depths ap[], rt[]
update_targets(sn, hh, vv, vh, vvel, crouch) ==
    LET freezetime == sn.gsi_active /\ sn.round_phase \in {"freezetime", "over"}
        non_combat == sn.gsi_active /\ sn.weapon_cat = WCAT_OTHER
        normal == [ap |-> Fill4(ap_normal), rt |-> Fill4(rt_normal)]
        base == get_base_aggro(sn)
        vel_ap == IF vel_scale_enabled /\ vel_enabled
                  THEN vel_scale_ap(base.ap, vel_ratio_of(vh, vvel, sn.weapon_speed))
                  ELSE base.ap
        t1 == axis_targets(normal, hh, K_D, K_A, vel_ap, base.rt)
        t2 == IF ws_adaptive THEN axis_targets(t1, vv, K_W, K_S, vel_ap, base.rt) ELSE t1
    IN  IF freezetime \/ non_combat THEN normal
        ELSE IF crouch THEN crouch_targets(t2, base.rt) ELSE t2

---------------------------------------------------------------------------
(* The state after main's set-up of the loop: AimContext ctx = {0} *)

KeyZero == [d |-> 0, a |-> 0]
VKeyZero == [w |-> 0, s |-> 0]

InitCore ==
    /\ now = StartTime
    /\ frame = 0
    /\ key = KeyZero
    /\ prev = KeyZero
    /\ h = AxisZero
    /\ crouching = FALSE
    /\ vkey = VKeyZero
    /\ v = AxisZero
    /\ vel_h = [vel |-> 0, max_speed |-> DEFAULT_SPEED, last_update |-> StartTime]
    /\ vel_v = [vel |-> 0, max_speed |-> DEFAULT_SPEED, last_update |-> StartTime]
    /\ vel_timer = StartTime
    /\ snap = SnapZero
    /\ g_gsi = GsiZero
    /\ w = WriterZero(StartTime)
    /\ emits = <<>>
    /\ wire = <<>>

\* no function is applied on its own
InitCtx ==
    /\ InitCore
    /\ arg = <<>>
    /\ res = <<>>

\* The process when main has reached its loop in adaptive mode with the
\* device open and no console event so far
InitLoopingProc ==
    /\ pc = [main |-> "loop", handler |-> "idle"]
    /\ args = [adaptive_mode |-> TRUE, watch_mode |-> FALSE, demo_mode |-> FALSE]
    /\ aggro = FALSE
    /\ event = "none"
    /\ g_running = TRUE
    /\ g_hid = "open"
    /\ g_adaptive = TRUE
    /\ g_gsi_thread = "open"
    /\ wsa = 1
    /\ sdk = "init"
    /\ rel = RelZero
    /\ rc = -1

\* the session of a loop that is running: opened, greeted, profile active
InitLooping ==
    /\ InitLoopingProc
    /\ dev = [handle |-> "open", active_profile |-> PROFILE_IDX]
    /\ feat = <<>>
    /\ hs = "ok"

InitAxis == InitCtx /\ InitLooping

\* One main-loop iteration, horizontal axis, with samples from Ds and time
\* steps from Dts: save the previous sample, read the analog values,
\* axis_update(&ctx.h, ctx.d, ctx.a, ctx.prev_d, ctx.prev_a)
AxisStep(Ds, Dts) ==
    /\ \E dt \in Dts, d \in Ds, a \in Ds :
          /\ now' = now + dt
          /\ prev' = key
          /\ key' = [d |-> d, a |-> a]
          /\ h' = axis_update(h, d, a, key.d, key.a, now + dt)
    /\ frame' = frame + 1
    /\ UNCHANGED <<sessVars, pureVars, crouching, vkey, v, velVars, gsiVars, writerVars, wire, procVars>>

AxisTick ==
    /\ frame < MaxFrames
    /\ AxisStep(Depths, AxisDts)

NextAxis == AxisTick

SpecAxis == InitAxis /\ [][NextAxis]_vars

---------------------------------------------------------------------------
(* The axis state machine over longer runs of fully pressed or released keys *)

\* samples of the horizontal keys: released or pressed
JiggleDepths == {0, 80}
\* time passing between two main-loop iterations, in microseconds
JiggleDts == {100000, 200000}

JiggleTick ==
    /\ frame < MaxJiggleFrames
    /\ AxisStep(JiggleDepths, JiggleDts)

InitJiggle == InitCtx /\ InitLooping

NextJiggle == JiggleTick

SpecJiggle == InitJiggle /\ [][NextJiggle]_vars

\* C11: on a tick that enters a COUNTER state the entry time is stored in
\* the 4-slot ring, and is_jiggle becomes true iff at least 2 ring entries,
\* the new one included, are less than 300 ms old (a lone counter-strafe
\* does not set it).  Once set, is_jiggle stays true on every tick until the
\* first tick with now - jiggle_last > 300 ms, on which it is cleared.
C11_Jiggle ==
    [][ LET enters == h'.state # h.state /\ IsCounter(h'.state)
            young == {i \in 1..4 : h'.jiggle_times[i] # 0
                                   /\ now' - h'.jiggle_times[i] < 300000}
        IN  /\ enters =>
                 /\ h'.jiggle_times[(h.jiggle_idx % 4) + 1] = now'
                 /\ \A i \in 1..4 : i # (h.jiggle_idx % 4) + 1
                                      => h'.jiggle_times[i] = h.jiggle_times[i]
                 /\ Cardinality(young) >= 2 => h'.is_jiggle /\ h'.jiggle_last = now'
                 /\ (~h.is_jiggle /\ Cardinality(young) < 2) => ~h'.is_jiggle
            /\ (~enters /\ ~h.is_jiggle) => ~h'.is_jiggle
            /\ h.is_jiggle =>
                 (h'.is_jiggle <=> ~(now' - h'.jiggle_last > 300000))
            /\ (h.is_jiggle /\ now' - h.jiggle_last > 300000) => ~h'.is_jiggle
      ]_vars

\* is_jiggle was set by a second counter-strafe and has been cleared on the
\* first tick more than 300 ms after it
C11_Witness ==
    /\ ~h.is_jiggle
    /\ h.jiggle_last # 0
    /\ now - h.jiggle_last > 300000
    /\ now - h.jiggle_last <= 400000
    /\ h.jiggle_idx = 2

---------------------------------------------------------------------------
(* The velocity estimator in the adaptive main loop *)

\* samples of the horizontal keys fed to the velocity estimator
VelDepths == {0, 80}
\* time passing between two main-loop iterations, in microseconds
VelDts == {15625, 100000, 150000}
\* what the ingest thread's scan extracts from the requests it is sent
VelPayloads ==
    { [weapon_name |-> "weapon_negev", weapon_type |-> "Machine Gun",
       round_phase |-> "live", health |-> 100],
      [weapon_name |-> "weapon_knife", weapon_type |-> "Knife",
       round_phase |-> "live", health |-> 100] }

\* The ingest thread handles one request whose scan extracts one of Ps:
\* parse_gsi_json(body, content_length)
GsiStore(Ps) ==
    /\ \E p \in Ps : g_gsi' = gsi_store(g_gsi, p)
    /\ UNCHANGED <<sessVars, pureVars, now, frame, axisVars, velVars, snap, writerVars, wire, procVars>>

GsiIngest == GsiStore(VelPayloads)

\* One main-loop iteration of the adaptive mode, velocity part: sample, the
\* velocity update at most once per millisecond with the max speed of the
\* snapshot taken by the previous iteration, then update_targets' snapshot
VelTick ==
    /\ frame < MaxVelFrames
    /\ \E dt \in VelDts, d \in VelDepths, a \in VelDepths :
          LET loop_start == now + dt
          IN  /\ now' = loop_start
              /\ prev' = key
              /\ key' = [d |-> d, a |-> a]
              /\ IF loop_start - vel_timer >= VEL_PERIOD
                 THEN /\ vel_h' = vel_update(vel_h, d, a, max_spd(snap.weapon_speed), loop_start)
                      /\ vel_v' = vel_update(vel_v, vkey.w, vkey.s, max_spd(snap.weapon_speed), loop_start)
                      /\ vel_timer' = loop_start
                 ELSE UNCHANGED velVars
    /\ snap' = gsi_snapshot(g_gsi)
    /\ frame' = frame + 1
    /\ UNCHANGED <<sessVars, pureVars, h, crouching, vkey, v, g_gsi, writerVars, wire, procVars>>

InitVel == InitCtx /\ InitLooping

NextVel == GsiIngest \/ VelTick

SpecVel == InitVel /\ [][NextVel]_vars

\* C5: after any finite sequence of velocity updates, skipped ones and ones
\* with a changed max_speed included, the estimator satisfies
\* |vel| <= max_speed (its stored ceiling) and vel is 0 or |vel| >= 0.5.
C5_VelWithinMax ==
    /\ Abs(vel_h.vel) <= vel_h.max_speed
    /\ vel_h.vel = 0 \/ Abs(vel_h.vel) >= SNAP_SPEED

---------------------------------------------------------------------------
(* The rate-limited writer in the adaptive main loop *)

\* depths update_targets hands to check_changed: all normal, the horizontal
\* keys aggressive, the vertical keys aggressive
WriterTargets ==
    { [ap |-> Fill4(ap_normal), rt |-> Fill4(rt_normal)],
      [ap |-> <<ap_normal, ap_aggro, ap_normal, ap_aggro>>,
       rt |-> <<rt_normal, rt_aggro, rt_normal, rt_aggro>>],
      [ap |-> <<ap_aggro, ap_normal, ap_aggro, ap_normal>>,
       rt |-> <<rt_aggro, rt_normal, rt_aggro, rt_normal>>] }
\* time passing between two main-loop iterations, in microseconds
WriterDts == {10000, 40000, 50000}

\* do_write_frames giving up the RT write after a failed AP write
do_write_frames_stop(wr, r_ap) ==
    IF r_ap
    THEN << write_actuation(PROFILE_IDX, KeySettings4(wr.target_ap), FALSE),
            write_rt(PROFILE_IDX, KeySettings4(wr.target_rt), FALSE) >>
    ELSE << write_actuation(PROFILE_IDX, KeySettings4(wr.target_ap), FALSE) >>

\* do_write's two writes: the frames handed to hid_write when the AP write
\* returned r_ap; the RT write follows whatever the AP write returned
do_write_frames(wr, r_ap) ==
    << write_actuation(PROFILE_IDX, KeySettings4(wr.target_ap), FALSE),
       write_rt(PROFILE_IDX, KeySettings4(wr.target_rt), FALSE) >>

\* One main-loop iteration of the adaptive mode, writer part:
\* if (adaptive_mode && hid) { update_targets(&ctx); do_write(&ctx, hid, freq); }
\* the depths update_targets computes from Tgts, the time step from Dts, the
\* returns of the two writes from Rets and logged in res
WriterIteration(Tgts, Dts, Rets) ==
    /\ g_running /\ args.adaptive_mode /\ g_hid # "null"
    /\ \E dt \in Dts, tgt \in Tgts, r_ap \in Rets, r_rt \in Rets :
          LET t == now + dt
              w1 == check_changed(w, tgt.ap, tgt.rt)
          IN  /\ now' = t
              /\ IF do_write_due(w1, g_hid, t)
                 THEN /\ wire' = wire \o do_write_frames(w1, r_ap)
                      /\ res' = res \o <<r_ap, r_rt>>
                      /\ w' = do_write_done(w1, t)
                      /\ emits' = Append(emits, t)
                 ELSE /\ w' = w1
                      /\ UNCHANGED <<wire, emits, res>>
    /\ UNCHANGED <<sessVars, arg, axisVars, velVars, gsiVars, procVars>>

\* the iteration with both writes succeeding
WriterTick ==
    /\ frame < MaxWriterFrames
    /\ WriterIteration(WriterTargets, WriterDts, {TRUE})
    /\ frame' = frame + 1

InitWriter == InitCtx /\ InitLooping

NextWriter == WriterTick

SpecWriter == InitWriter /\ [][NextWriter]_vars

\* C4: any two consecutive AP/RT write pairs emitted by the rate-limited
\* writer start at least write_interval_ms apart, and the first one starts
\* no earlier than write_interval_ms after the writer was initialised.
C4_WriteSpacing ==
    \A i \in 1..Len(emits) :
        emits[i] - (IF i = 1 THEN StartTime ELSE emits[i - 1]) >= write_interval_ms

\* two emissions exactly one interval apart, the first exactly one interval
\* after the set-up, and a further change of target held back by the limit
C4_Witness ==
    /\ Len(emits) = 2
    /\ emits[1] = StartTime + write_interval_ms
    /\ emits[2] = emits[1] + write_interval_ms
    /\ Len(wire) = 4
    /\ w.needs_write
    /\ now > emits[2]

\* C28: the writer emits an AP/RT pair on a tick only if the target differs
\* from current (the values last emitted) in some key's AP or RT; after the
\* target went A -> B -> A within one write interval with current = A, no
\* write is emitted.
C28_WriteOnlyOnDifference ==
    [][ Len(wire') > Len(wire) =>
          (w'.target_ap # w.current_ap \/ w'.target_rt # w.current_rt) ]_vars


\* C37: whenever needs_write is false the target equals current in AP and RT
\* of all four keys; and right after an emission current is the target of
\* that tick, which the two frames of the emission carry.
C37_CleanMeansEqual ==
    /\ [](~w.needs_write => (w.target_ap = w.current_ap /\ w.target_rt = w.current_rt))
    /\ [][ Len(emits') > Len(emits) =>
              /\ w'.current_ap = w'.target_ap /\ w'.current_rt = w'.target_rt
              /\ ~w'.needs_write
              /\ wire' = wire \o
                    << write_actuation(PROFILE_IDX, KeySettings4(w'.target_ap), FALSE),
                       write_rt(PROFILE_IDX, KeySettings4(w'.target_rt), FALSE) >> ]_vars

\* one emission after three iterations, carrying targets other than the
\* normal ones, and nothing pending
C37_Witness ==
    /\ frame >= 3
    /\ w.write_count = 1
    /\ Len(wire) = 2
    /\ ~w.needs_write
    /\ w.current_ap = <<ap_aggro, ap_normal, ap_aggro, ap_normal>>
    /\ wire[1].keys = KeySettings4(w.current_ap)

---------------------------------------------------------------------------
(* The writer while the loop keeps running: the iterations that compute a
   target freely are counted, those that find a write pending and compute
   the same target again are not *)

MaxHoldFrames == 4

HoldChange ==
    /\ frame < MaxHoldFrames
    /\ WriterIteration(WriterTargets, WriterDts, {TRUE})
    /\ frame' = frame + 1

\* an iteration that finds a write pending and whose update_targets computes
\* the target again
HoldTick ==
    /\ w.needs_write
    /\ WriterIteration({[ap |-> w.target_ap, rt |-> w.target_rt]}, WriterDts, {TRUE})
    /\ UNCHANGED frame

InitHold == InitCtx /\ InitLooping

NextHold == HoldChange \/ HoldTick

\* while (g_running) does not block: an iteration that is due is taken
SpecHold == InitHold /\ [][NextHold]_vars /\ WF_vars(HoldTick)

\* C38: a target that differs from current and stays is eventually emitted
\* and current then equals it; a write stays pending only while less than
\* write_interval_ms has passed since the last emission, so it goes out on the
\* first tick at or after the interval; and an emission happens only on a
\* tick that found a write pending or changed the target.
C38_EventuallyWritten ==
    /\ \A tgt \in WriterTargets :
          (w.needs_write /\ w.target_ap = tgt.ap /\ w.target_rt = tgt.rt)
              ~> \/ (~w.needs_write /\ w.current_ap = tgt.ap /\ w.current_rt = tgt.rt)
                 \/ w.target_ap # tgt.ap \/ w.target_rt # tgt.rt
    /\ [](w.needs_write => now - w.last_write_time < write_interval_ms)
    /\ [][ Len(emits') > Len(emits) =>
              /\ w.needs_write \/ w'.target_ap # w.target_ap \/ w'.target_rt # w.target_rt
              /\ w'.current_ap = w'.target_ap /\ w'.current_rt = w'.target_rt
              /\ wire'[Len(wire')].keys = KeySettings4(w'.target_rt) ]_vars

\* a target was held back by the limit, went out exactly one interval
\* after the emission before it, and nothing has been written since
C38_Witness ==
    /\ Len(emits) = 2
    /\ emits[2] = emits[1] + write_interval_ms
    /\ ~w.needs_write
    /\ w.current_ap = w.target_ap
    /\ now > emits[2]
    /\ Len(wire) = 4

---------------------------------------------------------------------------
(* The writer when the transport fails: hid_write returns -1, send_data
   and the write return false, do_write does not look *)

MaxFailFrames == 4
\* what a write returns: true, or false when hid_write failed
FailRets == BOOLEAN
FailDts == {50000}

FailTick ==
    /\ frame < MaxFailFrames
    /\ WriterIteration(WriterTargets, FailDts, FailRets)
    /\ frame' = frame + 1

InitFail == InitCtx /\ InitLooping

NextFail == FailTick

SpecFail == InitFail /\ [][NextFail]_vars

\* C39: an emission hands both frames to the device, AP then RT, whatever
\* the AP write returned; whatever both returned the loop goes on, current
\* becomes the target, needs_write is cleared and last_write_time stamped;
\* and a tick that computes the same target after that emits nothing.
C39_FailureIgnored ==
    [][ /\ Len(emits') > Len(emits) =>
              /\ Len(wire') = Len(wire) + 2
              /\ wire'[Len(wire') - 1] = write_actuation(PROFILE_IDX, KeySettings4(w'.target_ap), FALSE)
              /\ wire'[Len(wire')] = write_rt(PROFILE_IDX, KeySettings4(w'.target_rt), FALSE)
              /\ w'.current_ap = w'.target_ap /\ w'.current_rt = w'.target_rt
              /\ ~w'.needs_write
              /\ w'.last_write_time = now'
              /\ g_running' /\ pc'.main = "loop"
        /\ (~w.needs_write /\ w'.target_ap = w.target_ap /\ w'.target_rt = w.target_rt)
              => UNCHANGED <<wire, emits>> ]_vars

\* both writes of the only emission failed; the target was computed again
\* on a later tick and nothing was sent
C39_Witness ==
    /\ res = <<FALSE, FALSE>>
    /\ Len(wire) = 2
    /\ frame >= 2
    /\ now > emits[1]
    /\ ~w.needs_write
    /\ w.current_ap = w.target_ap
    /\ w.current_ap # Fill4(ap_normal)
---------------------------------------------------------------------------
(* The whole iteration of the adaptive main loop, vertical keys untouched *)

\* samples of the horizontal keys and of left control: released or pressed
LoopDepths == {0, 80}
\* W and S stay released
VertReleased == {0}
\* time passing between two main-loop iterations, in microseconds
LoopDts == {100000}
\* what the ingest thread's scan extracts from the requests it is sent: a
\* rifle or a grenade in a live round, a rifle in freezetime and after the round
LoopPayloads ==
    { [weapon_name |-> "weapon_ak47", weapon_type |-> "Rifle",
       round_phase |-> "live", health |-> 100],
      [weapon_name |-> "weapon_hegrenade", weapon_type |-> "Grenade",
       round_phase |-> "live", health |-> 100],
      [weapon_name |-> "weapon_ak47", weapon_type |-> "Rifle",
       round_phase |-> "freezetime", health |-> 100],
      [weapon_name |-> "weapon_ak47", weapon_type |-> "Rifle",
       round_phase |-> "over", health |-> 100] }

LoopIngest == GsiStore(LoopPayloads)

\* One iteration of while (g_running) in adaptive mode with the device
\* open: the samples, axis_update, vel_update, update_targets, do_write;
\* the time step from Dts, the samples of A and D from Ds, that of left
\* control from Ctrls, those of W and S from Vs, at most Max iterations
LoopIteration(Dts, Ds, Vs, Ctrls, Max) ==
    /\ frame < Max
    /\ g_running /\ args.adaptive_mode /\ g_hid # "null"
    /\ \E dt \in Dts, d \in Ds, a \in Ds, kw \in Vs, ks \in Vs, ctrl \in Ctrls :
          LET t == now + dt
              h1 == axis_update(h, d, a, key.d, key.a, t)
              v1 == axis_update(v, kw, ks, vkey.w, vkey.s, t)
              ve1 == IF t - vel_timer >= VEL_PERIOD
                     THEN vel_update(vel_h, d, a, max_spd(snap.weapon_speed), t)
                     ELSE vel_h
              vv1 == IF t - vel_timer >= VEL_PERIOD
                     THEN vel_update(vel_v, kw, ks, max_spd(snap.weapon_speed), t)
                     ELSE vel_v
              sn1 == gsi_snapshot(g_gsi)
              tg == update_targets(sn1, h1, v1, ve1.vel, vv1.vel, Active(ctrl))
              w1 == check_changed(w, tg.ap, tg.rt)
          IN  /\ now' = t
              /\ prev' = key
              /\ key' = [d |-> d, a |-> a]
              /\ crouching' = Active(ctrl)
              /\ h' = h1
              /\ vkey' = [w |-> kw, s |-> ks]
              /\ v' = v1
              /\ vel_h' = ve1
              /\ vel_v' = vv1
              /\ vel_timer' = IF t - vel_timer >= VEL_PERIOD THEN t ELSE vel_timer
              /\ snap' = sn1
              /\ IF do_write_due(w1, g_hid, t)
                 THEN /\ wire' = wire \o
                           << write_actuation(PROFILE_IDX, KeySettings4(w1.target_ap), FALSE),
                              write_rt(PROFILE_IDX, KeySettings4(w1.target_rt), FALSE) >>
                      /\ w' = do_write_done(w1, t)
                      /\ emits' = Append(emits, t)
                 ELSE /\ w' = w1
                      /\ UNCHANGED <<wire, emits>>
    /\ frame' = frame + 1
    /\ UNCHANGED <<sessVars, pureVars, g_gsi, procVars>>

LoopTick == LoopIteration(LoopDts, LoopDepths, VertReleased, LoopDepths, MaxLoopFrames)

InitLoop == InitCtx /\ InitLooping

NextLoop == LoopIngest \/ LoopTick

SpecLoop == InitLoop /\ [][NextLoop]_vars

---------------------------------------------------------------------------
(* The iteration with no game-state cache fed and left control released   *)

MaxPolicyFrames == 5

\* samples of the horizontal keys: released, half lifted, pressed
PolicyDepths == {0, 40, 80}
\* left control stays released
PolicyCtrls == {0}
\* time passing between two iterations, in microseconds
PolicyDts == {100000}

PolicyTick == LoopIteration(PolicyDts, PolicyDepths, VertReleased, PolicyCtrls, MaxPolicyFrames)

InitPolicy == InitCtx /\ InitLooping

NextPolicy == PolicyTick

SpecPolicy == InitPolicy /\ [][NextPolicy]_vars

\* update_targets took none of its early exits and no crouch was applied
PlainTick ==
    /\ frame > 0
    /\ ~crouching
    /\ ~(snap.gsi_active /\ (snap.round_phase \in {"freezetime", "over"}
                              \/ snap.weapon_cat = WCAT_OTHER))

\* the base depths and the velocity-scaled AP of the iteration just run
BaseOfTick == get_base_aggro(snap)
VelApOfTick == vel_scale_ap(BaseOfTick.ap, vel_ratio_of(vel_h.vel, vel_v.vel, snap.weapon_speed))

MaxCounterFrames == 4

\* samples of the horizontal keys: released or pressed
CounterDepths == {0, 80}
\* time passing between two iterations, in microseconds: inside the
\* ultra-low window of a counter-strafe and beyond it
CounterDts == {30000, 100000}

CounterTick == LoopIteration(CounterDts, CounterDepths, VertReleased, PolicyCtrls, MaxCounterFrames)

InitCounter == InitCtx /\ InitLooping

NextCounter == CounterTick

SpecCounter == InitCounter /\ [][NextCounter]_vars

\* C29: with phase decay enabled, no early exit and no crouch, on every tick
\* on which the axis is in COUNTER_POS or COUNTER_NEG and less than 80 ms
\* have passed since it entered that state, the entry tick included, the AP
\* target of the countering key is 0.15 mm, the other key of the axis gets
\* AP normal, and both keys get RT base_rt.
C29_UltraLowWindow ==
    (PlainTick /\ IsCounter(h.state) /\ now - h.counter_start < PHASE_ULTRA_MS) =>
        LET kc == IF h.state = S_COUNTER_POS THEN K_D ELSE K_A
            ko == IF h.state = S_COUNTER_POS THEN K_A ELSE K_D
        IN  /\ w.target_ap[kc] = 150
            /\ w.target_ap[ko] = ap_normal
            /\ w.target_rt[kc] = BaseOfTick.rt
            /\ w.target_rt[ko] = BaseOfTick.rt

\* C30: with no early exit and no crouch the horizontal targets follow the
\* table for the non-counter states: IDLE without jiggle: normal AP and RT
\* on both keys; IDLE with jiggle: vel_ap / base_rt on both keys;
\* STRAFE_POS: left AP = vel_ap, left RT = base_rt if predictive or jiggle
\* and normal otherwise, right AP = normal, right RT = base_rt; STRAFE_NEG
\* is the mirror image.
C30_TargetTable ==
    PlainTick =>
        LET ap == w.target_ap
            rt == w.target_rt
            early == h.predictive \/ h.is_jiggle
        IN  /\ (h.state = S_IDLE /\ ~h.is_jiggle) =>
                  /\ ap[K_A] = ap_normal /\ rt[K_A] = rt_normal
                  /\ ap[K_D] = ap_normal /\ rt[K_D] = rt_normal
            /\ (h.state = S_IDLE /\ h.is_jiggle) =>
                  /\ ap[K_A] = VelApOfTick /\ rt[K_A] = BaseOfTick.rt
                  /\ ap[K_D] = VelApOfTick /\ rt[K_D] = BaseOfTick.rt
            /\ h.state = S_STRAFE_POS =>
                  /\ ap[K_A] = VelApOfTick
                  /\ rt[K_A] = (IF early THEN BaseOfTick.rt ELSE rt_normal)
                  /\ ap[K_D] = ap_normal /\ rt[K_D] = BaseOfTick.rt
            /\ h.state = S_STRAFE_NEG =>
                  /\ ap[K_D] = VelApOfTick
                  /\ rt[K_D] = (IF early THEN BaseOfTick.rt ELSE rt_normal)
                  /\ ap[K_A] = ap_normal /\ rt[K_A] = BaseOfTick.rt

\* a predictive tick: D is being lifted, A has not been pressed, and A is
\* already at vel_ap / base_rt
C30_Witness ==
    /\ PlainTick
    /\ h.state = S_STRAFE_POS /\ h.predictive /\ ~h.is_jiggle
    /\ key.a = 0 /\ key.d = 40
    /\ w.target_ap[K_A] = VelApOfTick /\ w.target_ap[K_A] < ap_normal
    /\ w.target_rt[K_A] = rt_aggro

---------------------------------------------------------------------------
(* The iteration with the forward and back keys moving *)

MaxVertFrames == 4

\* samples of W, A, S and D: released or pressed
VertDepths == {0, 80}
VertDts == {100000}

VertTick == LoopIteration(VertDts, VertDepths, VertDepths, PolicyCtrls, MaxVertFrames)

InitVert == InitCtx /\ InitLooping

NextVert == VertTick

SpecVert == InitVert /\ [][NextVert]_vars

\* the depths of A and D computed with the vertical axis at rest but the
\* velocity as it is
HorizontalAlone ==
    update_targets(snap, h, AxisZero, vel_h.vel, vel_v.vel, FALSE)

\* C32: with ws_adaptive disabled (the configuration of this model) and
\* crouch not held, the targets of W and S are ap_normal / rt_normal after
\* every policy tick, whatever the vertical axis state, its predictive and
\* jiggle flags and the velocity; the vertical axis changes the horizontal
\* keys' targets only through the total-velocity term.
C32_VerticalUntouched ==
    (frame > 0 /\ ~crouching) =>
        /\ w.target_ap[K_W] = ap_normal /\ w.target_rt[K_W] = rt_normal
        /\ w.target_ap[K_S] = ap_normal /\ w.target_rt[K_S] = rt_normal
        /\ w.target_ap = HorizontalAlone.ap
        /\ w.target_rt = HorizontalAlone.rt

\* a jiggle on the vertical axis in a counter-strafe at speed while D is
\* held: W and S stay normal, A is lowered by the total velocity
C32_Witness ==
    /\ IsCounter(v.state) /\ v.is_jiggle
    /\ vel_v.vel # 0
    /\ h.state = S_STRAFE_POS
    /\ w.target_ap[K_A] < ap_aggro
    /\ w.target_ap[K_W] = ap_normal /\ w.target_rt[K_S] = rt_normal

---------------------------------------------------------------------------
(* The iteration with left control and weapon swaps: the crouch modifier,
   the base of the category last stored, the max speed of the estimators *)

MaxGameFrames == 3
GameDepths == {0, 80}
GameDts == {15625}
\* the scan of the requests the game sends in a live round: a rifle, the
\* sniper rifle, the knife
GamePayloads ==
    { [weapon_name |-> "weapon_ak47", weapon_type |-> "Rifle",
       round_phase |-> "live", health |-> 100],
      [weapon_name |-> "weapon_awp", weapon_type |-> "SniperRifle",
       round_phase |-> "live", health |-> 100],
      [weapon_name |-> "weapon_knife", weapon_type |-> "Knife",
       round_phase |-> "live", health |-> 100] }

GameIngest == GsiStore(GamePayloads)

GameTick == LoopIteration(GameDts, GameDepths, VertReleased, GameDepths, MaxGameFrames)

InitGame == InitCtx /\ InitLooping

NextGame == GameIngest \/ GameTick

SpecGame == InitGame /\ [][NextGame]_vars

\* the snapshot's early exit of update_targets
EarlyExit == snap.gsi_active /\ (snap.round_phase \in {"freezetime", "over"}
                                  \/ snap.weapon_cat = WCAT_OTHER)
\* the targets of the last tick before the crouch modifier
BeforeCrouch == update_targets(snap, h, v, vel_h.vel, vel_v.vel, FALSE)
\* rt x crouch_rt_factor, never below the base
CrouchRt(rt) ==
    LET crt == (rt * crouch_rt_factor) \div ONE
        base_rt == get_base_aggro(snap).rt
    IN  IF crt < base_rt THEN base_rt ELSE crt
\* ap + 0.3 x (ap_normal - ap)
CrouchAp(ap) == ap + ((ap_normal - ap) * CROUCH_AP_RELAX) \div 10

\* C31 (as the code has it): after a tick with crouch depth > DEAD_ZONE and
\* no early exit, every key's RT is max(rt x crouch_rt_factor, base_rt), and
\* every key's AP is ap + 0.3 x (ap_normal - ap) when ap < ap_normal and is
\* left at ap otherwise, ap and rt being the values before the modifier.
C31_CrouchModifier ==
    (frame > 0 /\ crouching /\ ~EarlyExit) =>
        \A i \in 1..4 :
            /\ w.target_rt[i] = CrouchRt(BeforeCrouch.rt[i])
            /\ w.target_ap[i] = IF BeforeCrouch.ap[i] < ap_normal
                                 THEN CrouchAp(BeforeCrouch.ap[i])
                                 ELSE BeforeCrouch.ap[i]

\* C31 as stated: the AP of every key is relaxed by 30% of the gap to
\* ap_normal, for every base AP, one above ap_normal included.
C31_EveryKeyRelaxed ==
    (frame > 0 /\ crouching /\ ~EarlyExit) =>
        \A i \in 1..4 :
            /\ w.target_rt[i] = CrouchRt(BeforeCrouch.rt[i])
            /\ w.target_ap[i] = CrouchAp(BeforeCrouch.ap[i])

\* crouched with the knife out while strafing: the released key's AP was
\* above ap_normal before the modifier
C31_Witness ==
    /\ frame > 0 /\ crouching /\ ~EarlyExit
    /\ snap.weapon_cat = WCAT_KNIFE
    /\ h.state = S_STRAFE_POS
    /\ BeforeCrouch.ap[K_A] > ap_normal
    /\ w.target_ap[K_A] = BeforeCrouch.ap[K_A]

\* C34: a tick's policy works on the cache as the ingest thread left it, so
\* the targets of the tick after a swap are those of the new category's
\* base in every axis state; and a velocity update sets the max_speed of
\* both estimators to the speed of the weapon in the snapshot the policy
\* tick before it took.
C34_SwapFollowed ==
    [][ frame' = frame + 1 =>
          /\ snap' = [ weapon_cat |-> g_gsi.weapon_cat, weapon_name |-> g_gsi.weapon_name,
                       round_phase |-> g_gsi.round_phase,
                       weapon_speed |-> g_gsi.weapon_speed,
                       gsi_active |-> g_gsi.connected ]
          /\ (g_gsi.connected /\ ~crouching' /\ g_gsi.weapon_cat # WCAT_OTHER) =>
                LET base == weapon_profile[g_gsi.weapon_cat]
                IN  /\ \A i \in 1..4 : w'.target_rt[i] \in {rt_normal, base.rt}
                    /\ \A i \in 1..4 : w'.target_ap[i] = ap_normal
                                           \/ (w'.target_ap[i] >= MIN_AP /\ w'.target_ap[i] <= base.ap)
                    /\ h'.state # S_IDLE => \E i \in {K_A, K_D} : w'.target_rt[i] = base.rt
          /\ vel_timer' # vel_timer =>
                /\ vel_h'.max_speed = max_spd(snap.weapon_speed)
                /\ vel_v'.max_speed = max_spd(snap.weapon_speed) ]_vars

\* the sniper rifle is out, a counter-strafe runs on its base, and both
\* estimators run on its speed
C34_Witness ==
    /\ snap.weapon_name = "weapon_awp"
    /\ IsCounter(h.state)
    /\ w.target_rt[K_A] = weapon_profile[WCAT_AWP].rt
    /\ w.target_rt[K_D] = weapon_profile[WCAT_AWP].rt
    /\ vel_h.max_speed = weapon_max_speed("weapon_awp")
    /\ vel_v.max_speed = weapon_max_speed("weapon_awp")

---------------------------------------------------------------------------
(* The base of the policy under a loaded configuration *)

MaxBaseFrames == 3
\* lines of wooting-aim.cfg, depths in thousandths of a millimetre
ConfigLines ==
    { [k |-> "ap_aggro", val |-> 300], [k |-> "rt_aggro", val |-> 200],
      [k |-> "rifle_ap", val |-> 600], [k |-> "awp_rt", val |-> 300],
      [k |-> "poll_rate_hz", val |-> 1000] }
\* the configuration after config_load read a one-line file
BaseConfigs == { config_load(g_cfg, l.k, l.val) : l \in ConfigLines }
\* what the scan extracts: a payload without an active weapon (the player
\* is dead or spectating), a rifle, the sniper rifle
BasePayloads ==
    { [weapon_name |-> "", weapon_type |-> "", round_phase |-> "live", health |-> 0],
      [weapon_name |-> "", weapon_type |-> "", round_phase |-> "", health |-> -1],
      [weapon_name |-> "weapon_ak47", weapon_type |-> "Rifle",
       round_phase |-> "live", health |-> 100],
      [weapon_name |-> "weapon_awp", weapon_type |-> "SniperRifle",
       round_phase |-> "live", health |-> 100] }

InitBase ==
    /\ InitCore
    /\ InitLooping
    /\ arg \in BaseConfigs
    /\ res = <<>>

BaseIngest == GsiStore(BasePayloads)

\* update_targets up to get_base_aggro: the snapshot, then the base
BaseSelect ==
    /\ frame < MaxBaseFrames
    /\ snap' = gsi_snapshot(g_gsi)
    /\ res' = get_base_aggro_cfg(arg, snap')
    /\ frame' = frame + 1
    /\ UNCHANGED <<sessVars, arg, now, axisVars, velVars, g_gsi, writerVars, wire, procVars>>

NextBase == BaseIngest \/ BaseSelect

SpecBase == InitBase /\ [][NextBase]_vars

\* C33: the base is the per-category pair only once an active weapon has
\* been reported (the cache holds a weapon name); while none has been, whether
\* the game state is connected or not, the base is ap_aggro / rt_aggro.
C33_BaseByReportedWeapon ==
    res # <<>> =>
        IF snap.weapon_name # ""
        THEN res = arg.weapon[snap.weapon_cat]
        ELSE res = [ap |-> arg.ap_aggro, rt |-> arg.rt_aggro]

---------------------------------------------------------------------------
(* The functions of the policy, applied on their own to inputs drawn at   *)
(* the start                                                              *)

\* actuation points a configuration file can give the aggressive base, in
\* thousandths of a millimetre, the shipped ones among them
ConfigAps == {50, 100, 150, 300, 400, 800, 1500}
\* velocity ratios, in thousandths
ScaleRatios == {0, 250, 499, 500, 501, 750, 1000}
\* times since the entry of the counter-strafe, in microseconds
DecayTimes == {0, 40000, 79000, 80000, 81000, 140000, 199000, 200000, 201000, 300000}

\* the function is applied on its own to the inputs in Args
InitPure(Args) ==
    /\ InitCore
    /\ InitLooping
    /\ arg \in Args
    /\ res = <<>>

InitDecay ==
    InitPure([base_ap : ConfigAps, vel_ratio : ScaleRatios, ms1 : DecayTimes, ms2 : DecayTimes])

\* update_targets' COUNTER cases: phase_decay_ap(vel_ap, counter_ms) with
\* vel_ap = vel_scale_ap(base_ap, vel_ratio), at two times
DecayApply ==
    /\ res = <<>>
    /\ LET vel_ap == vel_scale_ap(arg.base_ap, arg.vel_ratio)
       IN  res' = [base |-> vel_ap,
                   a1 |-> phase_decay_ap(vel_ap, arg.ms1),
                   a2 |-> phase_decay_ap(vel_ap, arg.ms2)]
    /\ UNCHANGED <<sessVars, arg, now, frame, axisVars, velVars, gsiVars, writerVars, wire, procVars>>

NextDecay == DecayApply

SpecDecay == InitDecay /\ [][NextDecay]_vars

InitScale == InitPure([base_ap : ConfigAps, r1 : ScaleRatios, r2 : ScaleRatios])

\* update_targets: vel_scale_ap(base_ap, vel_ratio), at two ratios
ScaleApply ==
    /\ res = <<>>
    /\ res' = [s1 |-> vel_scale_ap(arg.base_ap, arg.r1),
               s2 |-> vel_scale_ap(arg.base_ap, arg.r2)]
    /\ UNCHANGED <<sessVars, arg, now, frame, axisVars, velVars, gsiVars, writerVars, wire, procVars>>

NextScale == ScaleApply

SpecScale == InitScale /\ [][NextScale]_vars

\* C15: velocity-scaled AP equals base_ap for every v_ratio in [0, 0.5],
\* is monotonically non-increasing in v_ratio on [0.5, 1] reaching
\* 0.5 x base_ap at v_ratio = 1, and is never below 0.15 for any v_ratio
\* in [0, 1] and any base_ap.
C15_VelScale ==
    res # <<>> =>
        /\ arg.r1 <= 500 => res.s1 = arg.base_ap
        /\ (500 <= arg.r1 /\ arg.r1 <= arg.r2) => res.s1 >= res.s2
        /\ arg.r1 = 1000 => res.s1 = arg.base_ap \div 2
        /\ res.s1 >= 150

---------------------------------------------------------------------------
(* THE DEVICE SESSION PROTOCOL (hid_writer.c) *)

\* WootingHID *hid = NULL
DevNull == [handle |-> "null", active_profile |-> -1]

\* static const int REPORT_SIZES[], report IDs 1 to 6
REPORT_SIZES == <<32, 62, 254, 510, 1022, 2046>>

NUM_REPORT_SIZES == 7

MAGIC_0 == 209
MAGIC_1 == 218

\* the first report ID whose size exceeds the data size
pick_report_id_strict(data_size) ==
    IF \E i \in 1..(NUM_REPORT_SIZES - 1) : data_size < REPORT_SIZES[i]
    THEN CHOOSE i \in 1..(NUM_REPORT_SIZES - 1) :
            /\ data_size < REPORT_SIZES[i]
            /\ \A j \in 1..(i - 1) : ~(data_size < REPORT_SIZES[j])
    ELSE NUM_REPORT_SIZES - 1

\* static int pick_report_id(int data_size)
pick_report_id(data_size) ==
    IF \E i \in 1..(NUM_REPORT_SIZES - 1) : data_size <= REPORT_SIZES[i]
    THEN CHOOSE i \in 1..(NUM_REPORT_SIZES - 1) :
            /\ data_size <= REPORT_SIZES[i]
            /\ \A j \in 1..(i - 1) : ~(data_size <= REPORT_SIZES[j])
    ELSE NUM_REPORT_SIZES - 1

CMD_ACTIVATE_PROFILE == 23
CMD_RELOAD_PROFILE == 38
CMD_HANDSHAKE == 39
CMD_SAVE_PROFILE == 42

STATUS_SUCCESS == 136
STATUS_BUSY == 119
STATUS_UNSUPPORTED == 170

\* #define V3_USAGE_PAGE 0xFF55; 0xFF54 is the interface without writes
V3_USAGE_PAGE == 65365
OTHER_USAGE_PAGE == 65364

HANDSHAKE_BYTE == 1
\* #define HANDSHAKE_MAGIC 0x7A45465E
HANDSHAKE_MAGIC == 2051360350

\* the four bytes of a uint32_t, least significant first
Le4(param) ==
    <<param % 256, (param \div 256) % 256, (param \div 65536) % 256,
      (param \div 16777216) % 256>>

\* static bool send_command(dev, cmd, param): the 9-byte feature report
\* given to hid_send_feature_report, and whether that call succeeded
send_command(cmd, param, ret_ok) ==
    [kind |-> "feature", cmd |-> cmd,
     buf |-> <<1, MAGIC_0, MAGIC_1, cmd>> \o Le4(param) \o <<0>>, ok |-> ret_ok]

\* buf[i] of a zeroed buffer that holds the bytes of b from index 0
ByteAt(b, i) == IF i + 1 <= Len(b) THEN b[i + 1] ELSE 0

\* static int parse_response(buf, len, offset, body, body_size, body_len)
\* with no body wanted: the status byte, or -1
parse_response(buf, len, offset) ==
    IF len < offset + 5 THEN -1
    ELSE IF ByteAt(buf, offset) # MAGIC_0 \/ ByteAt(buf, offset + 1) # MAGIC_1 THEN -1
    ELSE ByteAt(buf, offset + 3)

\* static int read_feature_response(dev, NULL, 0, NULL); r is what
\* hid_get_feature_report returned and left in the buffer
read_feature_response(r) ==
    IF r.ret < 1 THEN -1 ELSE parse_response(r.buf, r.ret, 1)

\* a handshake that takes the feature report's word whatever the status
wooting_hid_handshake_nostatus(d, env) ==
    IF d.handle = "null" THEN [ret |-> FALSE, log |-> <<>>]
    ELSE [ret |-> TRUE,
          log |-> <<send_command(CMD_HANDSHAKE, HANDSHAKE_MAGIC, env.send_ok)>>]

\* bool wooting_hid_handshake(WootingHID *dev); env is what hidapi does:
\* send_ok for hid_send_feature_report, resp for hid_get_feature_report,
\* write_ok for hid_write
wooting_hid_handshake(d, env) ==
    LET cmd == send_command(CMD_HANDSHAKE, HANDSHAKE_MAGIC, env.send_ok)
        status == IF env.send_ok THEN read_feature_response(env.resp) ELSE -1
        data_size == 2 + 1 + 2 + 5
        rid == pick_report_id(data_size)
        buf_size == 1 + REPORT_SIZES[rid]
        buf == <<rid, MAGIC_0, MAGIC_1, CMD_HANDSHAKE, 5, 0, HANDSHAKE_BYTE>>
               \o Le4(HANDSHAKE_MAGIC) \o [i \in 1..(buf_size - 11) |-> 0]
    IN  IF d.handle = "null" THEN [ret |-> FALSE, log |-> <<>>]
        ELSE IF env.send_ok /\ status = STATUS_SUCCESS
        THEN [ret |-> TRUE, log |-> <<cmd>>]
        ELSE [ret |-> env.write_ok,
              log |-> <<cmd, [kind |-> "data", cmd |-> CMD_HANDSHAKE,
                              buf |-> buf, ok |-> env.write_ok]>>]

\* an activation that sends the command whatever the cached profile
wooting_hid_activate_profile_nocache(d, profile_idx, send_ok) ==
    IF d.handle = "null" \/ profile_idx < 0 \/ profile_idx > 3
    THEN [ret |-> FALSE, dev |-> d, log |-> <<>>]
    ELSE IF ~send_ok
    THEN [ret |-> FALSE, dev |-> d,
          log |-> <<send_command(CMD_ACTIVATE_PROFILE, profile_idx, FALSE)>>]
    ELSE [ret |-> TRUE, dev |-> [d EXCEPT !.active_profile = profile_idx],
          log |-> <<send_command(CMD_ACTIVATE_PROFILE, profile_idx, TRUE)>>]

\* bool wooting_hid_activate_profile(WootingHID *dev, int profile_idx)
wooting_hid_activate_profile(d, profile_idx, send_ok) ==
    IF d.handle = "null" \/ profile_idx < 0 \/ profile_idx > 3
    THEN [ret |-> FALSE, dev |-> d, log |-> <<>>]
    ELSE IF d.active_profile = profile_idx
    THEN [ret |-> TRUE, dev |-> d, log |-> <<>>]
    ELSE IF ~send_ok
    THEN [ret |-> FALSE, dev |-> d,
          log |-> <<send_command(CMD_ACTIVATE_PROFILE, profile_idx, FALSE)>>]
    ELSE [ret |-> TRUE, dev |-> [d EXCEPT !.active_profile = profile_idx],
          log |-> <<send_command(CMD_ACTIVATE_PROFILE, profile_idx, TRUE)>>]

\* WootingHID *wooting_hid_open(void); env is what hidapi does: init_ok for
\* hid_init, pages for the usage pages hid_enumerate lists, open_ok for
\* hid_open_path
wooting_hid_open(env) ==
    IF ~env.init_ok THEN DevNull
    ELSE IF V3_USAGE_PAGE \notin env.pages THEN DevNull
    ELSE IF ~env.open_ok THEN DevNull
    ELSE [handle |-> "open", active_profile |-> -1]

\* what hid_get_feature_report can return after the handshake command
FeatureResponses ==
    { [ret |-> -1, buf |-> <<>>],
      [ret |-> 0, buf |-> <<>>],
      [ret |-> 3, buf |-> <<1, 209, 218>>],
      [ret |-> 5, buf |-> <<1, 209, 218, 39, 136>>],
      [ret |-> 6, buf |-> <<1, 209, 218, 39, 136, 0>>],
      [ret |-> 7, buf |-> <<1, 209, 218, 39, 136, 0, 0>>],
      [ret |-> 7, buf |-> <<1, 0, 0, 39, 136, 0, 0>>],
      [ret |-> 7, buf |-> <<1, 209, 0, 39, 136, 0, 0>>],
      [ret |-> 7, buf |-> <<1, 209, 218, 39, 119, 0, 0>>],
      [ret |-> 7, buf |-> <<1, 209, 218, 39, 170, 0, 0>>],
      [ret |-> 7, buf |-> <<1, 209, 218, 39, 0, 0, 0>>] }

HandshakeEnvs == [send_ok : BOOLEAN, resp : FeatureResponses, write_ok : BOOLEAN]

\* what hidapi can find: nothing, only the interface without writes, both
OpenEnvs ==
    [init_ok : BOOLEAN,
     pages : {{}, {OTHER_USAGE_PAGE}, {OTHER_USAGE_PAGE, V3_USAGE_PAGE}},
     open_ok : BOOLEAN]

---------------------------------------------------------------------------
(* The process: main and the console-control handler, which Windows runs  *)
(* in a thread of its own while main goes on.  One console event is       *)
(* delivered at most.                                                     *)

Threads == {"main", "handler"}

\* the command lines: no option, --adaptive, --watch, --demo
Modes ==
    { [adaptive_mode |-> FALSE, watch_mode |-> FALSE, demo_mode |-> FALSE],
      [adaptive_mode |-> TRUE, watch_mode |-> FALSE, demo_mode |-> FALSE],
      [adaptive_mode |-> FALSE, watch_mode |-> TRUE, demo_mode |-> FALSE],
      [adaptive_mode |-> FALSE, watch_mode |-> FALSE, demo_mode |-> TRUE] }

\* console_handler's events: those after which the process goes on once the
\* handler has returned TRUE, and those after which Windows ends it
ConsoleEvents == {"CTRL_C_EVENT", "CTRL_CLOSE_EVENT"}

\* depths update_targets hands to check_changed
LifeTargets ==
    { [ap |-> Fill4(ap_normal), rt |-> Fill4(rt_normal)],
      [ap |-> <<ap_normal, ap_aggro, ap_normal, ap_aggro>>,
       rt |-> <<rt_normal, rt_aggro, rt_normal, rt_aggro>>] }
\* time passing between two main-loop iterations, in microseconds
LifeDts == {25000, 50000}

\* float ap_val = aggro ? 0.1f : 3.8f, in thousandths of a millimetre
demo_ap(ag) == IF ag THEN 100 ELSE 3800
\* float rt_val = aggro ? 0.1f : 1.0f
demo_rt(ag) == IF ag THEN 100 ELSE 1000

\* the process is running: main has not returned, nothing has crashed, and
\* the handler of a closing event has not returned
Alive ==
    /\ pc["main"] \notin {"exited", "crashed"}
    /\ ~(pc["handler"] = "returned" /\ event = "CTRL_CLOSE_EVENT")

\* What a write through the device pointer can do: through a freed one the
\* behaviour is undefined, the frame is lost or the process crashes
HidOutcomes(hid) == IF hid = "open" THEN {"sent"} ELSE {"lost", "crash"}

\* where thread T goes after a step: on, or down with the process
Goto(T, o, next) ==
    IF o = "crash" THEN [pc EXCEPT !["main"] = "crashed"] ELSE [pc EXCEPT ![T] = next]

\* send_data: the frame is handed to hid_write
Sent(o, f) == IF o = "sent" THEN Append(wire, f) ELSE wire

InitLife ==
    /\ InitCtx
    /\ pc = [main |-> "startup", handler |-> "idle"]
    /\ args \in Modes
    /\ aggro = FALSE
    /\ event = "none"
    /\ g_running = TRUE
    /\ g_hid = "null"
    /\ g_adaptive = FALSE
    /\ g_gsi_thread = "null"
    /\ wsa = 0
    /\ sdk = "none"
    /\ rel = RelZero
    /\ dev = DevNull
    /\ feat = <<>>
    /\ hs = "none"
    /\ rc = -1

ctxVars == <<now, frame, axisVars, velVars, gsiVars, writerVars>>
procVarsButPc == <<args, aggro, event, g_running, g_hid, g_adaptive,
                   g_gsi_thread, wsa, sdk, rel>>

\* Windows delivers a console event: console_handler starts in its own
\* thread, stores g_running = false and enters restore_and_cleanup
Signal ==
    /\ Alive
    /\ pc["handler"] = "idle"
    /\ \E e \in ConsoleEvents : event' = e
    /\ g_running' = FALSE
    /\ pc' = [pc EXCEPT !["handler"] = "td_restore_ap"]
    /\ UNCHANGED <<sessVars, pureVars, ctxVars, wire, args, aggro, g_hid, g_adaptive, g_gsi_thread, wsa, sdk, rel>>

\* main from SetConsoleCtrlHandler to the GSI set-up: WSAStartup, then
\* CreateThread, which can fail
MainStartup ==
    /\ Alive
    /\ pc["main"] = "startup"
    /\ wsa' = wsa + 1
    /\ \E created \in BOOLEAN :
          g_gsi_thread' = IF created THEN "open" ELSE "null"
    /\ pc' = [pc EXCEPT !["main"] = IF args.watch_mode THEN "watch_wait" ELSE "sdk_init"]
    /\ UNCHANGED <<sessVars, pureVars, ctxVars, wire, args, aggro, event, g_running, g_hid, g_adaptive, sdk, rel>>

\* Watch mode: the wait for CS2 ends because g_running is false, and main
\* tears down and returns 0 (rc is the value main is about to return), or
\* because CS2 was detected
MainWatchWait ==
    /\ Alive
    /\ pc["main"] = "watch_wait"
    /\ IF ~g_running
       THEN /\ pc' = [pc EXCEPT !["main"] = "td_restore_ap"]
            /\ rc' = 0
            /\ UNCHANGED args
       ELSE /\ pc' = [pc EXCEPT !["main"] = "sdk_init"]
            /\ args' = [args EXCEPT !.adaptive_mode = TRUE]
            /\ UNCHANGED rc
    /\ UNCHANGED <<dev, feat, hs, pureVars, ctxVars, wire, aggro, event, g_running, g_hid, g_adaptive,
                   g_gsi_thread, wsa, sdk, rel>>

\* SDK init: wooting_analog_initialise unless in demo mode; when it fails,
\* main tears down and returns 1
MainSdkInit ==
    /\ Alive
    /\ pc["main"] = "sdk_init"
    /\ IF args.demo_mode
       THEN /\ pc' = [pc EXCEPT !["main"] = "hid_init"]
            /\ UNCHANGED <<sdk, rc>>
       ELSE \E ret_ok \in BOOLEAN :
               IF ret_ok
               THEN /\ sdk' = "init"
                    /\ pc' = [pc EXCEPT !["main"] = "hid_init"]
                    /\ UNCHANGED rc
               ELSE /\ pc' = [pc EXCEPT !["main"] = "td_restore_ap"]
                    /\ rc' = 1
                    /\ UNCHANGED sdk
    /\ UNCHANGED <<dev, feat, hs, pureVars, ctxVars, wire, args, aggro, event, g_running, g_hid, g_adaptive,
                   g_gsi_thread, wsa, rel>>

\* HID writer init: g_adaptive = adaptive_mode; the device is opened in
\* adaptive and in demo mode, and a failure to open it is only warned about
MainHidInit ==
    /\ Alive
    /\ pc["main"] = "hid_init"
    /\ g_adaptive' = args.adaptive_mode
    /\ IF args.adaptive_mode \/ args.demo_mode
       THEN \E env \in OpenEnvs :
               LET hid == wooting_hid_open(env)
               IN  /\ dev' = hid
                   /\ g_hid' = hid.handle
                   /\ hs' = IF hid = DevNull THEN "no_device" ELSE "opened"
                   /\ pc' = [pc EXCEPT !["main"] =
                               IF hid # DevNull THEN "handshake" ELSE "loop_setup"]
       ELSE /\ UNCHANGED <<g_hid, dev, hs>>
            /\ pc' = [pc EXCEPT !["main"] = "loop_setup"]
    /\ UNCHANGED <<feat, rc, pureVars, ctxVars, wire, args, aggro, event, g_running, g_gsi_thread, wsa, sdk, rel>>

\* if (!wooting_hid_handshake(hid)) printf("WARNING: Handshake failed.\n");
MainHandshake ==
    /\ Alive
    /\ pc["main"] = "handshake"
    /\ \E o \in HidOutcomes(g_hid) :
          IF o = "sent"
          THEN \E env \in HandshakeEnvs :
                  LET r == wooting_hid_handshake(dev, env)
                  IN  /\ feat' = feat \o r.log
                      /\ hs' = IF r.ret THEN "ok" ELSE "failed"
                      /\ pc' = [pc EXCEPT !["main"] = "activate"]
          ELSE /\ UNCHANGED <<feat, hs>>
               /\ pc' = Goto("main", o, "activate")
    /\ UNCHANGED <<dev, rc, pureVars, ctxVars, wire, procVarsButPc>>

\* if (!wooting_hid_activate_profile(hid, PROFILE_IDX))
\*     printf("WARNING: Profile activation failed.\n");
\* then the demo loop if (demo_mode && hid), else the loop set-up
MainActivate ==
    /\ Alive
    /\ pc["main"] = "activate"
    /\ \E o \in HidOutcomes(g_hid) :
          LET next == IF args.demo_mode THEN "demo" ELSE "loop_setup"
          IN  IF o = "sent"
              THEN \E send_ok \in BOOLEAN :
                      LET r == wooting_hid_activate_profile(dev, PROFILE_IDX, send_ok)
                      IN  /\ dev' = r.dev
                          /\ feat' = feat \o r.log
                          /\ pc' = [pc EXCEPT !["main"] = next]
              ELSE /\ UNCHANGED <<dev, feat>>
                   /\ pc' = Goto("main", o, next)
    /\ UNCHANGED <<hs, rc, pureVars, ctxVars, wire, procVarsButPc>>

\* Demo mode: while (g_running) { aggro = !aggro; ... }; after the loop
\* restore_and_cleanup()
MainDemo ==
    /\ Alive
    /\ pc["main"] = "demo"
    /\ IF ~g_running
       THEN /\ pc' = [pc EXCEPT !["main"] = "td_restore_ap"]
            /\ rc' = 0
            /\ UNCHANGED aggro
       ELSE /\ Len(wire) < MaxWire
            /\ UNCHANGED rc
            /\ aggro' = ~aggro
            /\ pc' = [pc EXCEPT !["main"] = "demo_ap"]
    /\ UNCHANGED <<dev, feat, hs, pureVars, ctxVars, wire, args, event, g_running, g_hid, g_adaptive,
                   g_gsi_thread, wsa, sdk, rel>>

\* wooting_hid_write_actuation(hid, PROFILE_IDX, a, 1, false) of the demo loop
MainDemoAP ==
    /\ Alive
    /\ pc["main"] = "demo_ap"
    /\ \E o \in HidOutcomes(g_hid) :
          /\ wire' = Sent(o, write_actuation(PROFILE_IDX,
                                 <<KeySetting(K_D, demo_ap(aggro))>>, FALSE))
          /\ pc' = Goto("main", o, "demo_rt")
    /\ UNCHANGED <<sessVars, pureVars, ctxVars, args, aggro, event, g_running, g_hid, g_adaptive,
                   g_gsi_thread, wsa, sdk, rel>>

\* wooting_hid_write_rt(hid, PROFILE_IDX, r, 1, false) of the demo loop, and
\* the Sleep(3000) after it
MainDemoRT ==
    /\ Alive
    /\ pc["main"] = "demo_rt"
    /\ \E o \in HidOutcomes(g_hid) :
          /\ wire' = Sent(o, write_rt(PROFILE_IDX,
                                 <<KeySetting(K_D, demo_rt(aggro))>>, FALSE))
          /\ pc' = Goto("main", o, "demo")
    /\ UNCHANGED <<sessVars, pureVars, ctxVars, args, aggro, event, g_running, g_hid, g_adaptive,
                   g_gsi_thread, wsa, sdk, rel>>

\* Main loop setup: the writer fields and QueryPerformanceCounter(&ctx.last_write_time)
MainLoopSetup ==
    /\ Alive
    /\ pc["main"] = "loop_setup"
    /\ w' = WriterZero(now)
    /\ pc' = [pc EXCEPT !["main"] = "loop"]
    /\ UNCHANGED <<sessVars, pureVars, now, frame, axisVars, velVars, gsiVars, emits, wire, procVarsButPc>>

\* One main-loop iteration seen from the process: while (g_running) ...
\* if (adaptive_mode && hid) { update_targets(&ctx); do_write(&ctx, hid, freq); }
\* up to do_write's first write; the clock value do_write read is kept as
\* the last entry of emits.  After the loop main tears down.
MainLoop ==
    /\ Alive
    /\ pc["main"] = "loop"
    /\ IF ~g_running
       THEN /\ pc' = [pc EXCEPT !["main"] = "td_restore_ap"]
            /\ rc' = 0
            /\ UNCHANGED <<now, frame, w, emits>>
       ELSE /\ frame < MaxLifeFrames
            /\ UNCHANGED rc
            /\ Len(wire) < MaxWire
            /\ \E dt \in LifeDts, tgt \in LifeTargets :
                  LET t == now + dt
                      w1 == check_changed(w, tgt.ap, tgt.rt)
                  IN  /\ now' = t
                      /\ IF args.adaptive_mode /\ g_hid # "null"
                         THEN /\ w' = w1
                              /\ IF do_write_due(w1, g_hid, t)
                                 THEN /\ emits' = Append(emits, t)
                                      /\ pc' = [pc EXCEPT !["main"] = "write_ap"]
                                      /\ UNCHANGED frame
                                 ELSE /\ frame' = frame + 1
                                      /\ UNCHANGED <<emits, pc>>
                         ELSE /\ frame' = frame + 1
                              /\ UNCHANGED <<w, emits, pc>>
    /\ UNCHANGED <<dev, feat, hs, pureVars, axisVars, velVars, gsiVars, wire, procVarsButPc>>

\* do_write writing with the save argument true
MainWriteAP_saved ==
    /\ Alive
    /\ pc["main"] = "write_ap"
    /\ \E o \in HidOutcomes(g_hid) :
          /\ wire' = Sent(o, write_actuation(PROFILE_IDX, KeySettings4(w.target_ap), TRUE))
          /\ pc' = Goto("main", o, "write_rt")
    /\ UNCHANGED <<sessVars, pureVars, ctxVars, procVarsButPc>>

\* do_write: wooting_hid_write_actuation(hid, PROFILE_IDX, ap, 4, false)
MainWriteAP ==
    /\ Alive
    /\ pc["main"] = "write_ap"
    /\ \E o \in HidOutcomes(g_hid) :
          /\ wire' = Sent(o, write_actuation(PROFILE_IDX, KeySettings4(w.target_ap), FALSE))
          /\ pc' = Goto("main", o, "write_rt")
    /\ UNCHANGED <<sessVars, pureVars, ctxVars, procVarsButPc>>

\* do_write: wooting_hid_write_rt(hid, PROFILE_IDX, rt, 4, false) and the
\* bookkeeping after it, then the rest of the iteration
MainWriteRT ==
    /\ Alive
    /\ pc["main"] = "write_rt"
    /\ \E o \in HidOutcomes(g_hid) :
          /\ wire' = Sent(o, write_rt(PROFILE_IDX, KeySettings4(w.target_rt), FALSE))
          /\ pc' = Goto("main", o, "loop")
    /\ w' = do_write_done(w, emits[Len(emits)])
    /\ frame' = frame + 1
    /\ UNCHANGED <<sessVars, pureVars, now, axisVars, velVars, gsiVars, emits, procVarsButPc>>

\* restore_and_cleanup in thread T: if (g_hid && g_adaptive) the write of
\* ap_normal for the four keys
TdRestoreAP(T) ==
    /\ Alive
    /\ pc[T] = "td_restore_ap"
    /\ IF g_hid # "null" /\ g_adaptive
       THEN \E o \in HidOutcomes(g_hid) :
               /\ wire' = Sent(o, write_actuation(PROFILE_IDX,
                                      KeySettings4(Fill4(ap_normal)), FALSE))
               /\ pc' = Goto(T, o, "td_restore_rt")
       ELSE /\ pc' = [pc EXCEPT ![T] = "td_stop_gsi"]
            /\ UNCHANGED wire
    /\ UNCHANGED <<sessVars, pureVars, ctxVars, procVarsButPc>>

\* restore_and_cleanup in thread T: the write of rt_normal for the four keys
TdRestoreRT(T) ==
    /\ Alive
    /\ pc[T] = "td_restore_rt"
    /\ \E o \in HidOutcomes(g_hid) :
          /\ wire' = Sent(o, write_rt(PROFILE_IDX, KeySettings4(Fill4(rt_normal)), FALSE))
          /\ pc' = Goto(T, o, "td_stop_gsi")
    /\ UNCHANGED <<sessVars, pureVars, ctxVars, procVarsButPc>>

\* restore_and_cleanup in thread T: Stop GSI server; the handle stays in
\* g_gsi_thread after CloseHandle
TdStopGsi(T) ==
    /\ Alive
    /\ pc[T] = "td_stop_gsi"
    /\ IF g_gsi_thread # "null"
       THEN /\ g_gsi_thread' = "closed"
            /\ rel' = [rel EXCEPT !.thread = rel.thread + 1]
       ELSE UNCHANGED <<g_gsi_thread, rel>>
    /\ pc' = [pc EXCEPT ![T] = "td_wsa"]
    /\ UNCHANGED <<sessVars, pureVars, ctxVars, wire, args, aggro, event, g_running, g_hid, g_adaptive, wsa, sdk>>

\* restore_and_cleanup in thread T: WSACleanup(), then the stats file and
\* the timer resolution
TdWsa(T) ==
    /\ Alive
    /\ pc[T] = "td_wsa"
    /\ wsa' = IF wsa > 0 THEN wsa - 1 ELSE 0
    /\ rel' = [rel EXCEPT !.wsa = rel.wsa + 1]
    /\ pc' = [pc EXCEPT ![T] = "td_close"]
    /\ UNCHANGED <<sessVars, pureVars, ctxVars, wire, args, aggro, event, g_running, g_hid, g_adaptive,
                   g_gsi_thread, sdk>>

\* what wooting_hid_close can do: on a freed pointer it frees again, which
\* is undefined: it goes unnoticed or the process crashes
CloseOutcomes(hid) == IF hid = "open" THEN {"closed"} ELSE {"closed", "crash"}

\* restore_and_cleanup in thread T: if (g_hid) wooting_hid_close(g_hid);
\* g_hid keeps the pointer
TdClose(T) ==
    /\ Alive
    /\ pc[T] = "td_close"
    /\ IF g_hid # "null"
       THEN \E o \in CloseOutcomes(g_hid) :
               /\ g_hid' = "closed"
               /\ rel' = [rel EXCEPT !.hid = rel.hid + 1]
               /\ pc' = Goto(T, o, "td_uninit")
       ELSE /\ pc' = [pc EXCEPT ![T] = "td_uninit"]
            /\ UNCHANGED <<g_hid, rel>>
    /\ UNCHANGED <<sessVars, pureVars, ctxVars, wire, args, aggro, event, g_running, g_adaptive,
                   g_gsi_thread, wsa, sdk>>

\* restore_and_cleanup in thread T: wooting_analog_uninitialise(); then
\* main returns from main, the handler returns TRUE
TdUninit(T) ==
    /\ Alive
    /\ pc[T] = "td_uninit"
    /\ sdk' = "uninit"
    /\ rel' = [rel EXCEPT !.sdk = rel.sdk + 1]
    /\ pc' = [pc EXCEPT ![T] = IF T = "main" THEN "exited" ELSE "returned"]
    /\ UNCHANGED <<sessVars, pureVars, ctxVars, wire, args, aggro, event, g_running, g_hid, g_adaptive,
                   g_gsi_thread, wsa>>

NextLife ==
    \/ Signal
    \/ MainStartup
    \/ MainWatchWait
    \/ MainSdkInit
    \/ MainHidInit
    \/ MainHandshake
    \/ MainActivate
    \/ MainDemo
    \/ MainDemoAP
    \/ MainDemoRT
    \/ MainLoopSetup
    \/ MainLoop
    \/ MainWriteAP
    \/ MainWriteRT
    \/ \E T \in Threads :
          \/ TdRestoreAP(T)
          \/ TdRestoreRT(T)
          \/ TdStopGsi(T)
          \/ TdWsa(T)
          \/ TdClose(T)
          \/ TdUninit(T)

SpecLife == InitLife /\ [][NextLife]_vars

\* C1: in every interleaving of the console-control handler and the main
\* thread, each resource released by teardown (device session, ingest-thread
\* handle, socket library, analog SDK) is released at most once per run; a
\* second run of the teardown routine releases nothing again.
C1_ReleasedOnce ==
    \A r \in DOMAIN rel : rel[r] <= 1

IsAP(f) == f.cmd = CMD_ACTUATION
IsRT(f) == f.cmd = CMD_RAPID_TRIGGER

\* the AP/RT pairs the program builds from one target
IssuedPairs ==
    { <<KeySettings4(t.ap), KeySettings4(t.rt)>> : t \in LifeTargets }
    \cup { << <<KeySetting(K_D, demo_ap(ag))>>, <<KeySetting(K_D, demo_rt(ag))>> >> :
             ag \in BOOLEAN }

\* C2: in the sequence of data frames that reach the device, every
\* actuation (CMD 21) frame is immediately followed by the rapid-trigger
\* (CMD 25) frame built from the same target, with no other data frame in
\* between (the last frame may be an actuation frame whose partner is still
\* to be sent).
C2_PairedFrames ==
    \A i \in 1..(Len(wire) - 1) :
        IsAP(wire[i]) =>
            /\ IsRT(wire[i + 1])
            /\ <<wire[i].keys, wire[i + 1].keys>> \in IssuedPairs

\* the last frame with command cmd handed to the device
LastFrame(cmd) ==
    LET idx == {i \in 1..Len(wire) : wire[i].cmd = cmd}
    IN  wire[CHOOSE i \in idx : \A j \in idx : j <= i]

\* C3: once a device session that was written to has been closed, the last
\* AP frame and the last RT frame sent carry ap_normal and rt_normal for all
\* four keys W, A, S, D.
C3_RestoredAtClose ==
    (g_hid = "closed" /\ wire # <<>>) =>
        /\ \E i \in 1..Len(wire) : IsAP(wire[i])
        /\ \E i \in 1..Len(wire) : IsRT(wire[i])
        /\ LastFrame(CMD_ACTUATION).keys = KeySettings4(Fill4(ap_normal))
        /\ LastFrame(CMD_RAPID_TRIGGER).keys = KeySettings4(Fill4(rt_normal))


\* a step that writes to the device through g_hid, or goes down doing so
HidStep ==
    \/ pc["main"] \in {"write_ap", "write_rt"} /\ pc'["main"] # pc["main"]
    \/ \E T \in Threads :
          /\ pc[T] = "td_restore_rt" \/ (pc[T] = "td_restore_ap" /\ g_hid # "null" /\ g_adaptive)
          /\ pc'[T] # pc[T] \/ pc'["main"] = "crashed"

\* C40: every write to the device, by do_write or by the restore of
\* restore_and_cleanup, goes through a session that is open: none happens
\* after wooting_hid_close, however the console handler's teardown
\* interleaves with a main-loop iteration in progress.
C40_NoUseAfterClose ==
    [][ HidStep => g_hid = "open" ]_vars
---------------------------------------------------------------------------
(* Claims about the axis state machine, checked under SpecAxis *)

\* C6 as stated: after every axis tick, in COUNTER_POS or COUNTER_NEG both
\* inputs of the axis are active in that tick's sample.
C6_CounterBothActive ==
    IsCounter(h.state) => Active(key.d) /\ Active(key.a)

\* C6 as amended: after every axis tick, in COUNTER_POS the positive input
\* is active and in COUNTER_NEG the negative input is active (the newly
\* pressed direction); the other input is active too on every tick on which
\* the axis was already in that COUNTER state before the tick.
C6_CounterInputs ==
    /\ h.state = S_COUNTER_POS => Active(key.d)
    /\ h.state = S_COUNTER_NEG => Active(key.a)
    /\ IsCounter(h.state) /\ h.prev = h.state => Active(key.d) /\ Active(key.a)

\* the axis stayed in COUNTER_NEG over a tick
C6_Witness ==
    /\ h.state = S_COUNTER_NEG /\ h.prev = S_COUNTER_NEG
    /\ Active(key.d) /\ Active(key.a)

\* C7: after every axis tick on which the state is not IDLE, at most one of
\* pos_peak and neg_peak is nonzero.
C7_OnePeakNonzero ==
    h.state # S_IDLE => h.pos_peak = 0 \/ h.neg_peak = 0

\* C8: the axis enters COUNTER_NEG only from STRAFE_POS on a tick where neg
\* has a rising edge, and COUNTER_POS only from STRAFE_NEG on a tick where pos
\* has a rising edge, and records counter_start on that tick; no tick moves
\* the axis from IDLE to a COUNTER state or from one COUNTER state to the
\* other; D held and then (D released, A pressed) in one sample moves
\* STRAFE_POS to COUNTER_NEG.
C8_CounterEntry ==
    [][ /\ (h'.state = S_COUNTER_NEG /\ h.state # S_COUNTER_NEG)
            => /\ h.state = S_STRAFE_POS
               /\ Rising(key'.a, key.a)
               /\ h'.counter_start = now'
        /\ (h'.state = S_COUNTER_POS /\ h.state # S_COUNTER_POS)
            => /\ h.state = S_STRAFE_NEG
               /\ Rising(key'.d, key.d)
               /\ h'.counter_start = now'
        /\ h.state = S_IDLE => ~IsCounter(h'.state)
        /\ (IsCounter(h.state) /\ IsCounter(h'.state)) => h'.state = h.state
        /\ (/\ h.state = S_STRAFE_POS
            /\ Active(key.d) /\ ~Active(key.a)
            /\ ~Active(key'.d) /\ Active(key'.a)) => h'.state = S_COUNTER_NEG
      ]_vars

\* D was held, then D is released and A pressed in the same sample
C8_Witness ==
    /\ h.state = S_COUNTER_NEG /\ h.prev = S_STRAFE_POS
    /\ ~Active(key.d) /\ Active(key.a)
    /\ Active(prev.d) /\ ~Active(prev.a)
    /\ h.counter_start = now

\* C9: the axis leaves IDLE for STRAFE_POS only on a tick in which pos has a
\* rising edge while neg is inactive, and for STRAFE_NEG only on a neg rising
\* edge while pos is inactive; a key already held on the previous tick does
\* not start a strafe.
C9_StrafeOnRisingEdge ==
    [][ /\ (h.state = S_IDLE /\ h'.state = S_STRAFE_POS)
            => Rising(key'.d, key.d) /\ ~Active(key'.a)
        /\ (h.state = S_IDLE /\ h'.state = S_STRAFE_NEG)
            => Rising(key'.a, key.a) /\ ~Active(key'.d)
      ]_vars

\* C9 as amended: the axis leaves IDLE for STRAFE_POS exactly on a tick in
\* which pos is active while neg is inactive, and for STRAFE_NEG exactly on a
\* tick in which neg is active while pos is inactive, whether or not the key
\* rose on that tick: a key already held on the previous tick starts a strafe
\* as soon as the other key is released.
C9_StrafeOnLevel ==
    [][ h.state = S_IDLE =>
          /\ h'.state = S_STRAFE_POS <=> (Active(key'.d) /\ ~Active(key'.a))
          /\ h'.state = S_STRAFE_NEG <=> (Active(key'.a) /\ ~Active(key'.d))
          /\ h'.state \in {S_IDLE, S_STRAFE_POS, S_STRAFE_NEG}
      ]_vars

\* both keys were pressed together from IDLE, then A was released
C9_Witness ==
    /\ h.state = S_STRAFE_POS /\ h.prev = S_IDLE
    /\ Active(prev.d) /\ Active(prev.a)
    /\ Active(key.d) /\ ~Active(key.a)

\* C10: from any axis state, a tick whose sample has both pos and neg at or
\* below DEAD_ZONE leaves the axis in IDLE.
C10_ReleaseIdles ==
    (key.d <= DEAD_ZONE /\ key.a <= DEAD_ZONE) => h.state = S_IDLE

\* both keys released while the axis was in a COUNTER state
C10_Witness ==
    /\ h.state = S_IDLE /\ IsCounter(h.prev)
    /\ key.d <= DEAD_ZONE /\ key.a <= DEAD_ZONE

\* C13: in STRAFE_POS with peak 0.8, a drop of the held key to 0.5 makes
\* predictive true on that tick.  In general predictive is true after a
\* tick iff the state before the tick was STRAFE_x, the keys were not both
\* inactive, the updated peak of the held key exceeds predict_min_peak (0.3)
\* and its depth is below peak x predict_threshold (0.7); it never carries
\* over from an earlier tick.
C13_Predictive ==
    [][ LET held == IF h.state = S_STRAFE_POS THEN key'.d ELSE key'.a
            old == IF h.state = S_STRAFE_POS THEN h.pos_peak ELSE h.neg_peak
            peak == IF held > old THEN held ELSE old
        IN  /\ h'.predictive <=>
                 /\ h.state \in {S_STRAFE_POS, S_STRAFE_NEG}
                 /\ ~(key'.d <= DEAD_ZONE /\ key'.a <= DEAD_ZONE)
                 /\ peak > 30
                 /\ held * 100 < peak * 70
            /\ (h.state = S_STRAFE_POS /\ h.pos_peak = 80 /\ key'.d = 50)
                  => h'.predictive
      ]_vars

\* D held to 0.8 and then lifted to 0.5 while strafing
C13_Witness ==
    /\ h.predictive
    /\ h.state = S_STRAFE_POS /\ h.prev = S_STRAFE_POS
    /\ h.pos_peak = 80 /\ key.d = 50 /\ prev.d = 80


\* C35: counter_count goes up by one and counter_total_ms by the time since
\* the counter_start of the counter-strafe being left, on exactly the ticks
\* on which the axis leaves a COUNTER state; jiggle_idx goes up by one on
\* exactly the ticks that enter one, so the entries less counter_count are
\* 1 while the axis is in a COUNTER state and 0 otherwise.
C35_CounterStats ==
    /\ [](h.jiggle_idx - h.counter_count = IF IsCounter(h.state) THEN 1 ELSE 0)
    /\ [][ /\ IF IsCounter(h.state) /\ h'.state # h.state
              THEN /\ h'.counter_count = h.counter_count + 1
                   /\ h'.counter_total_ms = h.counter_total_ms + (now' - h.counter_start)
                   /\ h'.counter_ms = now' - h.counter_start
              ELSE /\ h'.counter_count = h.counter_count
                   /\ h'.counter_total_ms = h.counter_total_ms
           /\ h'.jiggle_idx = IF ~IsCounter(h.state) /\ IsCounter(h'.state)
                               THEN h.jiggle_idx + 1 ELSE h.jiggle_idx ]_vars

\* a counter-strafe held for two ticks was left and counted, and the next
\* one is running
C35_Witness ==
    /\ h.counter_count = 1
    /\ h.jiggle_idx = 2
    /\ IsCounter(h.state)
    /\ h.counter_total_ms = 250000

\* C36: after every tick, STRAFE_POS has D active, A inactive and
\* pos_peak >= D; STRAFE_NEG has A active, D inactive and neg_peak >= A;
\* IDLE has both keys active or both inactive.
C36_StateMatchesSample ==
    frame > 0 =>
        /\ h.state = S_STRAFE_POS =>
              Active(key.d) /\ ~Active(key.a) /\ h.pos_peak >= key.d
        /\ h.state = S_STRAFE_NEG =>
              Active(key.a) /\ ~Active(key.d) /\ h.neg_peak >= key.a
        /\ h.state = S_IDLE => (Active(key.d) <=> Active(key.a))

\* A was pressed deeper while strafing alone, after a counter-strafe
C36_Witness ==
    /\ h.state = S_STRAFE_NEG
    /\ h.counter_count = 1
    /\ Active(prev.a) /\ ~Active(prev.d)
    /\ key.a > prev.a
    /\ h.neg_peak = key.a
---------------------------------------------------------------------------
(* THE VELOCITY ESTIMATOR AT THE 64 Hz TICK *)

MaxDecelTicks == 41

\* float dt = 1.0f / 64.0f, in microseconds
TICK_64 == 15625

\* float threshold = max_speed * 0.34f, in hundredths
ACCURACY_SPEED(max_speed) == (max_speed * 34) \div 100

DecelWeapons ==
    {"", "weapon_knife", "weapon_awp", "weapon_ak47", "weapon_negev", "weapon_hegrenade"}

DecelDepths == {0, 80}

\* float vel = max_speed: the estimator at full speed in the positive
\* direction, the keys of the run fixed in arg
InitDecel ==
    /\ InitLooping
    /\ arg \in [max_speed : {weapon_max_speed(n) : n \in DecelWeapons},
                d : DecelDepths, a : DecelDepths]
    /\ res = <<>>
    /\ now = StartTime
    /\ frame = 0
    /\ key = [d |-> arg.d, a |-> arg.a]
    /\ prev = KeyZero
    /\ h = AxisZero
    /\ crouching = FALSE
    /\ vkey = VKeyZero
    /\ v = AxisZero
    /\ vel_h = [vel |-> arg.max_speed, max_speed |-> arg.max_speed, last_update |-> StartTime]
    /\ vel_v = [vel |-> 0, max_speed |-> arg.max_speed, last_update |-> StartTime]
    /\ vel_timer = StartTime
    /\ snap = SnapZero
    /\ g_gsi = GsiZero
    /\ w = WriterZero(StartTime)
    /\ emits = <<>>
    /\ wire = <<>>

\* vel = vel_step(vel, pos, neg, max_speed, dt); ticks++
DecelTick ==
    /\ frame < MaxDecelTicks
    /\ now' = now + TICK_64
    /\ vel_h' = vel_update(vel_h, arg.d, arg.a, arg.max_speed, now')
    /\ vel_timer' = now'
    /\ UNCHANGED vel_v
    /\ frame' = frame + 1
    /\ UNCHANGED <<sessVars, pureVars, axisVars, gsiVars, writerVars, wire, procVars>>

NextDecel == DecelTick

SpecDecel == InitDecel /\ [][NextDecel]_vars

\* C16: iterating the velocity step at dt = 1/64 s from vel = max_speed.
\* No key held: |vel| never increases and first is <= 0.5 at a tick between
\* 20 and 40.  Only the opposite key held: |vel| first is <= 0.34 x max_speed
\* at a tick between 3 and 12, and vel first is <= 0.5 at a tick between 5
\* and 15.  Both keys held: no acceleration, |vel| only decreases by
\* friction (the step is the one of the run with no key held).
C16_Decel ==
    [][ LET v0 == vel_h.vel
            v1 == vel_h'.vel
            n == frame'
            none == ~Active(arg.d) /\ ~Active(arg.a)
            opposite == ~Active(arg.d) /\ Active(arg.a)
            both == Active(arg.d) /\ Active(arg.a)
            thr == ACCURACY_SPEED(arg.max_speed)
        IN  /\ none =>
                 /\ Abs(v1) <= Abs(v0)
                 /\ (Abs(v0) > SNAP_SPEED /\ Abs(v1) <= SNAP_SPEED) => (n >= 20 /\ n <= 40)
                 /\ n = 40 => Abs(v1) <= SNAP_SPEED
            /\ opposite =>
                 /\ (Abs(v0) > thr /\ Abs(v1) <= thr /\ v0 > 0) => (n >= 3 /\ n <= 12)
                 /\ n = 12 => v1 <= thr
                 /\ (v0 > SNAP_SPEED /\ v1 <= SNAP_SPEED) => (n >= 5 /\ n <= 15)
                 /\ n = 15 => v1 <= SNAP_SPEED
            /\ both =>
                 /\ Abs(v1) <= Abs(v0)
                 /\ v1 >= 0
                 /\ v0 > 0 => v1 < v0
      ]_vars

\* a counter-strafe from the AK-47's 215 units/s that has passed 34 % of
\* the maximum and has just come to a stop or reversed
C16_Witness ==
    /\ arg.max_speed = 21500 /\ arg.d = 0 /\ arg.a = 80
    /\ frame >= 5 /\ frame <= 15
    /\ vel_h.vel <= SNAP_SPEED
    /\ vel_h.last_update = now

---------------------------------------------------------------------------
(* THE WIRE ENCODING *)

\* A float millimetre value is n x unit thousandths of a millimetre, with
\* unit 1 for travel depths and unit METRE for values beyond any key travel
METRE == 1000000

Thou(n) == [n |-> n, unit |-> 1]

Metres(n) == [n |-> n, unit |-> METRE]

\* x <= y on these values
MmLeq(x, y) ==
    CASE x.unit = y.unit -> x.n <= y.n
      [] x.unit = 1 -> \/ x.n \div METRE < y.n
                       \/ (x.n \div METRE = y.n /\ x.n % METRE = 0)
      [] OTHER -> x.n <= y.n \div METRE

\* the int type of the build
INT_MAX == 2147483647

INT_MIN == (-INT_MAX) - 1

\* (int) of a float: toward zero
Trunc(n, dd) == IF n >= 0 THEN n \div dd ELSE -((-n) \div dd)

\* (int)(mm / 4.0f * 255.0f + 0.5f) where the float is within the range of
\* int; FALSE where it is not, the conversion then being undefined
int_in_range(mm) ==
    mm.unit = 1 \/ (mm.n <= INT_MAX \div 63750 /\ mm.n >= -(INT_MAX \div 63750))

\* the results of the undefined conversion: the integer indefinite value
\* of x86 (cvttss2si), the saturated value of AArch64 (fcvtzs)
IntIndefinite(mm) == IF mm.n < 0 THEN {INT_MIN} ELSE {INT_MIN, INT_MAX}

float_to_int(mm, ub) ==
    IF int_in_range(mm)
    THEN (IF mm.unit = 1 THEN Trunc(mm.n * 255 + 2000, 4000) ELSE mm.n * 63750)
    ELSE ub

\* uint8_t mm_to_firmware(float mm); ub is what the build makes of an
\* out-of-range conversion
mm_to_firmware(mm, ub) ==
    LET val == float_to_int(mm, ub)
        v1 == IF val < 7 THEN 7 ELSE val
    IN  IF v1 > 255 THEN 255 ELSE v1

\* float firmware_to_mm(uint8_t val), to the nearest thousandth
firmware_to_mm(val) == (val * 8000 + 255) \div 510

BelowZero == 300
MaxMm == 4300

\* depths on the thousandth grid around the key travel, from 0.3 mm below
\* zero
FineMms == {Thou(n) : n \in (-BelowZero)..MaxMm}

\* depths a configuration file can hold (config_load takes any atof value)
CoarseMms ==
    {Thou(n) : n \in {-1000, 0, 100, 110, 200, 400, 1200, 2000, 3800, 4000, 5000}}
    \cup {Metres(n) : n \in {-33687, -1, 1, 33686, 33687}}

InitFw == InitPure([x : FineMms, y : CoarseMms])

\* uint8_t fw = mm_to_firmware(mm); float back = firmware_to_mm(fw), for
\* two depths and the depth one thousandth above the first
FwApply ==
    /\ res = <<>>
    /\ \E ub \in IntIndefinite(arg.y) :
          res' = [fx |-> mm_to_firmware(arg.x, ub),
                  fnext |-> mm_to_firmware(Thou(arg.x.n + 1), ub),
                  fy |-> mm_to_firmware(arg.y, ub),
                  back |-> firmware_to_mm(mm_to_firmware(arg.x, ub))]
    /\ UNCHANGED <<sessVars, arg, now, frame, axisVars, velVars, gsiVars, writerVars, wire, procVars>>

NextFw == FwApply

SpecFw == InitFw /\ [][NextFw]_vars

\* C17: mm_to_firmware is monotonic non-decreasing in mm and its result is
\* in [7, 255] for any mm, negative and above 4.0 included; for x in
\* [0.2, 3.8], firmware_to_mm(mm_to_firmware(x)) is within 0.02 of x.
C17_Firmware ==
    res # <<>> =>
        /\ res.fx \in 7..255 /\ res.fy \in 7..255
        /\ res.fx <= res.fnext
        /\ MmLeq(arg.x, arg.y) => res.fx <= res.fy
        /\ MmLeq(arg.y, arg.x) => res.fy <= res.fx
        /\ (arg.x.n >= 200 /\ arg.x.n <= 3800) => Abs(res.back - arg.x.n) <= 20

RECURSIVE encode_varint_nocont(_)
\* the 7-bit groups without the continuation bit
encode_varint_nocont(value) ==
    IF value > 127
    THEN <<value % 128>> \o encode_varint_nocont(value \div 128)
    ELSE <<value % 128>>

RECURSIVE encode_varint(_)
\* static int encode_varint(uint8_t *buf, uint32_t value): the bytes written
encode_varint(value) ==
    IF value > 127
    THEN <<(value % 128) + 128>> \o encode_varint(value \div 128)
    ELSE <<value % 128>>

RECURSIVE decode_varint(_)
\* (buf[0] & 0x7F) | ((buf[1] & 0x7F) << 7) | ..., up to and including the
\* first byte without the continuation bit
decode_varint(buf) ==
    IF buf = <<>> THEN 0
    ELSE IF Head(buf) >= 128
         THEN (Head(buf) % 128) + 128 * decode_varint(Tail(buf))
         ELSE Head(buf) % 128

\* every value below MaxVarintDense, then one value in VarintStride up
\* to 2^21, and the values next to 2^21
MaxVarintDense == 17000
VarintStride == 997
VARINT_LIMIT == 2097152

VarintValues ==
    (0..MaxVarintDense)
    \cup {k * VarintStride : k \in 0..((VARINT_LIMIT - 1) \div VarintStride)}
    \cup {VARINT_LIMIT - k : k \in 1..130}

InitVarint == InitPure([value : VarintValues])

\* len = encode_varint(buf, value); decoded = the bytes read back
VarintApply ==
    /\ res = <<>>
    /\ res' = [buf |-> encode_varint(arg.value),
               decoded |-> decode_varint(encode_varint(arg.value))]
    /\ UNCHANGED <<sessVars, arg, now, frame, axisVars, velVars, gsiVars, writerVars, wire, procVars>>

NextVarint == VarintApply

SpecVarint == InitVarint /\ [][NextVarint]_vars

\* C18: for every u in [0, 2^21) the bytes of encode_varint(u) are 7-bit
\* groups, least significant first, with the continuation bit on all but
\* the last byte; decoding them yields u; there is 1 byte for u < 2^7,
\* 2 bytes for 2^7 <= u < 2^14 and 3 bytes for 2^14 <= u < 2^21.
C18_Varint ==
    res # <<>> =>
        LET n == Len(res.buf)
        IN  /\ res.decoded = arg.value
            /\ n = (IF arg.value < 128 THEN 1 ELSE IF arg.value < 16384 THEN 2 ELSE 3)
            /\ \A i \in 1..n : res.buf[i] \in 0..255 /\ (res.buf[i] >= 128 <=> i < n)
            /\ arg.value = (res.buf[1] % 128)
                           + (IF n >= 2 THEN 128 * (res.buf[2] % 128) ELSE 0)
                           + (IF n >= 3 THEN 16384 * (res.buf[3] % 128) ELSE 0)

\* the key entry 16483 of the D key at 1.0 mm, in three bytes
C18_Witness ==
    /\ res # <<>>
    /\ arg.value = 16483
    /\ res.buf = <<227, 128, 1>>
    /\ res.decoded = 16483

\* static uint8_t linear_key_index(uint8_t row, uint8_t col)
linear_key_index(row, col) == ((row % 8) * 32) + (col % 32)

\* the index without the masks
encode_key_entry_nomask(firmware_val, row, col) ==
    ((firmware_val * 256) + (row * 32) + col) % 65536

\* static uint16_t encode_key_entry(uint8_t firmware_val, uint8_t row, uint8_t col)
encode_key_entry(firmware_val, row, col) ==
    ((firmware_val * 256) + linear_key_index(row, col)) % 65536

\* uint8_t inner[512]; uint8_t proto[512]
INNER_SIZE == 512
PROTO_SIZE == 512

\* the result of a build that gave up
OVERFLOW == [len |-> -1, bytes |-> <<>>]

\* one pass of build_partial_proto's loop: the inner bytes after key k,
\* OVERFLOW when the entry may not fit or an earlier one did not.  The
\* depths are key travel depths, within the range of int.
build_entry(inner, k) ==
    LET fw_val == mm_to_firmware(Thou(k.mm), INT_MIN)
        entry == encode_key_entry(fw_val, k.row, k.col)
    IN  IF inner.len < 0 \/ inner.len + 4 > INNER_SIZE
        THEN OVERFLOW
        ELSE LET bytes == inner.bytes \o <<8>> \o encode_varint(entry)
             IN  [len |-> Len(bytes), bytes |-> bytes]

RECURSIVE build_inner(_, _)
\* build_partial_proto, "First, build inner data": the loop over the keys
\* in order, from the inner bytes so far (evaluated by halves)
build_inner(inner, keys) ==
    LET n == Len(keys)
    IN  IF n = 0 THEN inner
        ELSE IF n = 1 THEN build_entry(inner, keys[1])
        ELSE LET mid == build_inner(inner, SubSeq(keys, 1, n \div 2))
             IN  IF mid.len < 0
                 THEN OVERFLOW
                 ELSE build_inner(mid, SubSeq(keys, (n \div 2) + 1, n))

\* static int build_partial_proto(uint8_t *buf, int buf_size,
\*                                const KeySetting *keys, int count)
build_partial_proto(buf_size, keys) ==
    LET inner == build_inner([len |-> 0, bytes |-> <<>>], keys)
    IN  IF inner.len < 0 \/ 1 + 5 + inner.len > buf_size
        THEN OVERFLOW
        ELSE LET buf == <<18>> \o encode_varint(inner.len) \o inner.bytes
             IN  [len |-> Len(buf), bytes |-> buf]

\* KeySetting values: uint8_t row, col and a travel depth
ProtoRows == {0, 3, 11, 255}
ProtoCols == {3, 31, 35}
ProtoMms == {100, 400, 1000, 4000}
ProtoKeys == [row : ProtoRows, col : ProtoCols, mm : ProtoMms]

MaxProtoKeys == 2

\* the numbers of keys of the long lists, the same key repeated
ProtoCounts == {4, 62, 126, 127, 128, 129}

ProtoLists ==
    UNION {[1..n -> ProtoKeys] : n \in 0..MaxProtoKeys}
    \cup {[i \in 1..n |-> [row |-> 3, col |-> 3, mm |-> mm]] :
             n \in ProtoCounts, mm \in {400, 1000}}

InitProto == InitPure([keys : ProtoLists])

\* int proto_len = build_partial_proto(proto, sizeof(proto), keys, count)
ProtoApply ==
    /\ res = <<>>
    /\ res' = build_partial_proto(PROTO_SIZE, arg.keys)
    /\ UNCHANGED <<sessVars, arg, now, frame, axisVars, velVars, gsiVars, writerVars, wire, procVars>>

NextProto == ProtoApply

SpecProto == InitProto /\ [][NextProto]_vars

\* the clamped firmware value of a depth between 0 and 4 mm, rounded half up
FwOf(mm) ==
    LET fw == (mm * 255 + 2000) \div 4000
    IN  IF fw < 7 THEN 7 ELSE IF fw > 255 THEN 255 ELSE fw

\* 0x08 and the varint of (fw << 8) | ((row & 7) << 5) | (col & 31)
EntryBytes(k) ==
    <<8>> \o encode_varint(FwOf(k.mm) * 256 + (k.row % 8) * 32 + (k.col % 32))

RECURSIVE EntryBlock(_)
\* the entries of the keys in order
EntryBlock(keys) ==
    LET n == Len(keys)
    IN  IF n = 0 THEN <<>>
        ELSE IF n = 1 THEN EntryBytes(keys[1])
        ELSE EntryBlock(SubSeq(keys, 1, n \div 2)) \o EntryBlock(SubSeq(keys, (n \div 2) + 1, n))

\* 0x12, varint(length of the entry block), the entry block
TaggedPayload(keys) ==
    <<18>> \o encode_varint(Len(EntryBlock(keys))) \o EntryBlock(keys)

\* C19 as stated: for every list of KeySettings the payload is 0x12,
\* varint(length of the entry block), then per key 0x08 and
\* varint((fw << 8) | ((row & 7) << 5) | (col & 31)), rows and columns
\* wrapping modulo 8 and 32; for the single key (3, 3, 0.4 mm) it is
\* [0x12, 0x03, 0x08, 0xE3, 0x34].
C19_Payload ==
    res # <<>> =>
        /\ res.len = Len(res.bytes)
        /\ res.bytes = TaggedPayload(arg.keys)
        /\ arg.keys = <<[row |-> 3, col |-> 3, mm |-> 400]>>
              => res.bytes = <<18, 3, 8, 227, 52>>

\* C19 for the lists the builder accepts: whenever there is a payload it
\* has the stated bytes; there is one for every list of up to 126 keys;
\* there is none (the builder returns -1) when the entry block is longer
\* than 506 bytes.
C19_PayloadWithinBuffer ==
    res # <<>> =>
        /\ res # OVERFLOW => /\ res.len = Len(res.bytes)
                             /\ res.bytes = TaggedPayload(arg.keys)
        /\ Len(arg.keys) <= 126 => res # OVERFLOW
        /\ Len(EntryBlock(arg.keys)) > PROTO_SIZE - 6 => res = OVERFLOW
        /\ arg.keys = <<[row |-> 3, col |-> 3, mm |-> 400]>>
              => res.bytes = <<18, 3, 8, 227, 52>>

\* two keys, the first with row 11 and column 35, which wrap to 3 and 3
C19_Witness ==
    /\ res # <<>>
    /\ Len(arg.keys) = 2
    /\ arg.keys[1].row = 11 /\ arg.keys[1].col = 35 /\ arg.keys[1].mm = 400
    /\ arg.keys[2] = [row |-> 3, col |-> 3, mm |-> 1000]
    /\ res.bytes = <<18, 7, 8, 227, 52, 8, 227, 128, 1>>

\* a write that returned false before hid_write
NOT_SENT == [sent |-> FALSE, rid |-> 0, buf |-> <<>>, overrun |-> FALSE]

\* static bool send_data(dev, cmd, options, proto, proto_len): the buffer
\* handed to hid_write; overrun when memcpy writes past the 1 + pad_size
\* bytes of calloc
send_data(cmd, options, proto) ==
    LET proto_len == Len(proto)
        data_size == 6 + proto_len
        rid == pick_report_id(data_size)
        pad_size == REPORT_SIZES[rid]
        buf_size == 1 + pad_size
        header == <<rid, MAGIC_0, MAGIC_1, cmd, options,
                    proto_len % 256, (proto_len \div 256) % 256>>
    IN  IF 7 + proto_len > buf_size
        THEN [sent |-> TRUE, rid |-> rid,
              buf |-> SubSeq(header \o proto, 1, buf_size), overrun |-> TRUE]
        ELSE [sent |-> TRUE, rid |-> rid,
              buf |-> header \o proto \o [i \in 1..(buf_size - 7 - proto_len) |-> 0],
              overrun |-> FALSE]

\* the body shared by wooting_hid_write_actuation and wooting_hid_write_rt
hid_write_keys(cmd, profile_idx, keys, save) ==
    LET proto == build_partial_proto(PROTO_SIZE, keys)
        options == ((IF save THEN 1 ELSE 0) + 2 * profile_idx) % 256
    IN  IF Len(keys) <= 0 \/ proto.len < 0
        THEN NOT_SENT
        ELSE send_data(cmd, options, proto.bytes)

\* bool wooting_hid_write_actuation(dev, profile_idx, keys, count, save)
wooting_hid_write_actuation(profile_idx, keys, save) ==
    hid_write_keys(CMD_ACTUATION, profile_idx, keys, save)

\* bool wooting_hid_write_rt(dev, profile_idx, keys, count, save)
wooting_hid_write_rt(profile_idx, keys, save) ==
    hid_write_keys(CMD_RAPID_TRIGGER, profile_idx, keys, save)

MaxFrameKeys == 1

\* the numbers of keys of the longer lists
FrameCounts == {4, 8, 18, 19, 62, 126, 127}

FrameLists ==
    UNION {[1..n -> ProtoKeys] : n \in 0..MaxFrameKeys}
    \cup {[i \in 1..n |-> [row |-> 3, col |-> 3, mm |-> mm]] :
             n \in FrameCounts, mm \in {400, 1000}}

\* profile_idx: 0-3
ProfileIdxs == 0..3

InitFrame == InitPure([keys : FrameLists, profile_idx : ProfileIdxs, save : BOOLEAN])

WriteActuationApply ==
    /\ res = <<>>
    /\ res' = [cmd |-> CMD_ACTUATION,
               out |-> wooting_hid_write_actuation(arg.profile_idx, arg.keys, arg.save)]
    /\ UNCHANGED <<sessVars, arg, now, frame, axisVars, velVars, gsiVars, writerVars, wire, procVars>>

WriteRtApply ==
    /\ res = <<>>
    /\ res' = [cmd |-> CMD_RAPID_TRIGGER,
               out |-> wooting_hid_write_rt(arg.profile_idx, arg.keys, arg.save)]
    /\ UNCHANGED <<sessVars, arg, now, frame, axisVars, velVars, gsiVars, writerVars, wire, procVars>>

NextFrame == WriteActuationApply \/ WriteRtApply

SpecFrame == InitFrame /\ [][NextFrame]_vars

---------------------------------------------------------------------------
(* THE HANDSHAKE AND THE PROFILE ACTIVATION ON THEIR OWN *)

\* the session the call is made on: none, or one just opened
HandshakeDevs == {DevNull, [handle |-> "open", active_profile |-> -1]}

InitHandshake == InitPure([d : HandshakeDevs, env : HandshakeEnvs])

\* if (!wooting_hid_handshake(hid)) ...
HandshakeApply ==
    /\ res = <<>>
    /\ LET r == wooting_hid_handshake(arg.d, arg.env)
       IN  /\ res' = r
           /\ feat' = feat \o r.log
           /\ hs' = IF r.ret THEN "ok" ELSE "failed"
    /\ UNCHANGED <<dev, rc, arg, now, frame, axisVars, velVars, gsiVars, writerVars, wire, procVars>>

NextHandshake == HandshakeApply

SpecHandshake == InitHandshake /\ [][NextHandshake]_vars

MaxActivations == 3

\* profile_idx values handed to the call
ActivateIdxs == (-1)..4

\* a session just opened: dev->active_profile = -1
InitActivate ==
    /\ InitCore
    /\ InitLoopingProc
    /\ dev = wooting_hid_open([init_ok |-> TRUE, pages |-> {V3_USAGE_PAGE}, open_ok |-> TRUE])
    /\ feat = <<>>
    /\ hs = "opened"
    /\ arg = <<>>
    /\ res = <<>>

\* wooting_hid_activate_profile(hid, idx), called again and again
ActivateCall ==
    /\ frame < MaxActivations
    /\ \E idx \in ActivateIdxs, send_ok \in BOOLEAN :
          LET r == wooting_hid_activate_profile(dev, idx, send_ok)
          IN  /\ dev' = r.dev
              /\ feat' = feat \o r.log
              /\ res' = [idx |-> idx, send_ok |-> send_ok, ret |-> r.ret]
    /\ frame' = frame + 1
    /\ UNCHANGED <<hs, rc, arg, now, axisVars, velVars, gsiVars, writerVars, wire, procVars>>

NextActivate == ActivateCall

SpecActivate == InitActivate /\ [][NextActivate]_vars

\* C23: activate_profile(idx) sends command 23 iff idx is in [0,3] and
\* differs from the cached active profile; with idx in [0,3] equal to the
\* cache it sends nothing and returns success; with idx outside [0,3] or
\* when the send fails it returns failure and leaves the cache unchanged;
\* a successful send caches idx; no reload command (38) is ever sent.
C23_Activate ==
    [][ LET idx == res'.idx
            n == Len(feat') - Len(feat)
            valid == idx >= 0 /\ idx <= 3
        IN  /\ n \in {0, 1}
            /\ SubSeq(feat', 1, Len(feat)) = feat
            /\ n = 1 <=> (valid /\ idx # dev.active_profile)
            /\ n = 1 => feat'[Len(feat')].buf = <<1, 209, 218, 23, idx, 0, 0, 0, 0>>
            /\ (valid /\ idx = dev.active_profile) => (res'.ret /\ dev' = dev)
            /\ (~valid \/ (n = 1 /\ ~res'.send_ok)) => (~res'.ret /\ dev' = dev)
            /\ (n = 1 /\ res'.send_ok) => (res'.ret /\ dev'.active_profile = idx)
            /\ \A i \in 1..Len(feat') : feat'[i].cmd # 38
      ]_vars

\* profile 2 activated twice in a row: one command, both calls succeed
C23_Witness ==
    /\ frame = 2
    /\ res # <<>> /\ res.idx = 2 /\ res.ret
    /\ dev.active_profile = 2
    /\ Len(feat) = 1 /\ feat[1].ok /\ feat[1].cmd = 23

---------------------------------------------------------------------------
(* THE SESSION AS THE PROCESS USES IT *)

\* C22: every actuation or rapid-trigger write sent on a device session is
\* preceded by a handshake on that session that returned success; after a
\* failed handshake no AP/RT write is issued.
C22_WritesAfterHandshake ==
    (\E i \in 1..Len(wire) : IsAP(wire[i]) \/ IsRT(wire[i])) => hs = "ok"

\* C24: in every run (adaptive loop, demo loop, shutdown restore) every
\* AP/RT data frame has the save bit of its options byte clear and the
\* save-profile command (42) is never sent.
C24_NoFlashWrite ==
    /\ \A i \in 1..Len(wire) : wire[i].options % 2 = 0
    /\ \A i \in 1..Len(feat) : feat[i].cmd # 42

\* a run that greeted the keyboard, activated the profile, wrote from the
\* loop and restored the normal depths at shutdown
C24_Witness ==
    /\ pc["main"] = "exited"
    /\ Len(feat) >= 2
    /\ Len(wire) >= 4
    /\ \E i \in 1..Len(wire) : IsAP(wire[i]) /\ wire[i].keys # KeySettings4(Fill4(ap_normal))
    /\ IsRT(wire[Len(wire)]) /\ wire[Len(wire)].keys = KeySettings4(Fill4(rt_normal))

\* C25: when adaptive or demo mode is requested and open() finds no
\* interface with usage page 0xFF55 or cannot open it, the process never
\* enters the main polling loop and terminates with exit code 1.
C25_OpenFailureFatal ==
    hs = "no_device" =>
        /\ pc["main"] \notin {"loop", "write_ap", "write_rt"}
        /\ pc["main"] = "exited" => rc = 1

---------------------------------------------------------------------------
(* THE GAME-STATE INGEST *)

\* what parse_gsi_json's scan can take out of a body: the active weapon or
\* none, the round phase or none, the player's health or -1
IngestWeapons ==
    { [weapon_name |-> "", weapon_type |-> ""],
      [weapon_name |-> "weapon_ak47", weapon_type |-> "Rifle"],
      [weapon_name |-> "weapon_hegrenade", weapon_type |-> "Grenade"] }
IngestPhases == {"", "live", "freezetime"}
IngestHealths == {-1, 100}

IngestScans ==
    { [weapon_name |-> wp.weapon_name, weapon_type |-> wp.weapon_type,
       round_phase |-> ph, health |-> hp] :
          wp \in IngestWeapons, ph \in IngestPhases, hp \in IngestHealths }

\* the Content-Length values of a request: none or zero, or the body's size
IngestLengths == {0, 2}

\* a request read by gsi_thread: whether the header end was found, the
\* Content-Length, and what the scan of the body yields
IngestRequests == [body : BOOLEAN, content_length : IngestLengths, scan : IngestScans]

\* gsi_thread, "Parse the body": if (body && content_length > 0)
\*     parse_gsi_json(body, content_length);
gsi_thread_parse(g, req) ==
    IF req.body /\ req.content_length > 0 THEN gsi_store(g, req.scan) ELSE g

InitIngest ==
    /\ InitCore
    /\ InitLooping
    /\ arg = <<>>
    /\ res = <<>>

\* the ingest thread handles one request, kept in arg
IngestRequest ==
    /\ \E req \in IngestRequests :
          /\ arg' = req
          /\ g_gsi' = gsi_thread_parse(g_gsi, req)
    /\ UNCHANGED <<sessVars, res, now, frame, axisVars, velVars, snap, writerVars, wire, procVars>>

\* update_targets, "Read GSI state (thread-safe)"
IngestSnapshot ==
    /\ snap' = gsi_snapshot(g_gsi)
    /\ UNCHANGED <<sessVars, pureVars, now, frame, axisVars, velVars, g_gsi, writerVars, wire, procVars>>

NextIngest == IngestRequest \/ IngestSnapshot

SpecIngest == InitIngest /\ [][NextIngest]_vars

\* a body was parsed and yielded no active weapon, no round phase, no health
Malformed(req) ==
    /\ req # <<>>
    /\ req.body /\ req.content_length > 0
    /\ req.scan.weapon_name = "" /\ req.scan.round_phase = "" /\ req.scan.health < 0

\* C26: an ingested request whose body is malformed (no round phase, no
\* health, no active weapon) leaves the game-state cache exactly as it was:
\* weapon fields, round_phase, health and the connected flag are unchanged,
\* and so is the snapshot the policy would take of it.
C26_MalformedDiscarded ==
    [][ Malformed(arg') =>
          /\ g_gsi' = g_gsi
          /\ gsi_snapshot(g_gsi') = gsi_snapshot(g_gsi) ]_vars

---------------------------------------------------------------------------
(* THE CACHE BETWEEN THE INGEST THREAD AND THE MAIN LOOP, STORE BY STORE *)

MaxRequests == 3

\* requests whose scans differ in every field, one with the weapon only,
\* one without a body
CacheRequests ==
    { [body |-> TRUE, content_length |-> 2,
       scan |-> [weapon_name |-> "weapon_ak47", weapon_type |-> "Rifle",
                 round_phase |-> "live", health |-> 100]],
      [body |-> TRUE, content_length |-> 2,
       scan |-> [weapon_name |-> "weapon_hegrenade", weapon_type |-> "Grenade",
                 round_phase |-> "freezetime", health |-> 50]],
      [body |-> TRUE, content_length |-> 2,
       scan |-> [weapon_name |-> "weapon_awp", weapon_type |-> "SniperRifle",
                 round_phase |-> "", health |-> -1]],
      [body |-> FALSE, content_length |-> 0,
       scan |-> [weapon_name |-> "", weapon_type |-> "", round_phase |-> "", health |-> -1]] }

\* parse_gsi_json, "Update shared state", statement by statement
StoreFields ==
    <<"weapon_name", "weapon_type", "weapon_cat", "weapon_speed",
      "round_phase", "health", "connected">>

\* update_targets, "Read GSI state", statement by statement
CopyFields == <<"weapon_cat", "weapon_name", "round_phase", "weapon_speed", "gsi_active">>

\* the statement after statement f of the list fs, or the LeaveCriticalSection
After(fs, f) ==
    LET i == CHOOSE j \in 1..Len(fs) : fs[j] = f
    IN  IF i < Len(fs) THEN fs[i + 1] ELSE "leave"

\* one statement of parse_gsi_json's update: the store into field f
store_field(g, f, p) ==
    CASE f = "weapon_name" ->
            IF p.weapon_name # "" THEN [g EXCEPT !.weapon_name = p.weapon_name] ELSE g
      [] f = "weapon_type" ->
            IF p.weapon_name # "" THEN [g EXCEPT !.weapon_type = p.weapon_type] ELSE g
      [] f = "weapon_cat" ->
            IF p.weapon_name # ""
            THEN [g EXCEPT !.weapon_cat = categorize_weapon_type(p.weapon_type)] ELSE g
      [] f = "weapon_speed" ->
            IF p.weapon_name # ""
            THEN [g EXCEPT !.weapon_speed = weapon_max_speed(p.weapon_name)] ELSE g
      [] f = "round_phase" ->
            IF p.round_phase # "" THEN [g EXCEPT !.round_phase = p.round_phase] ELSE g
      [] f = "health" ->
            IF p.health >= 0 THEN [g EXCEPT !.health = p.health] ELSE g
      [] f = "connected" -> [g EXCEPT !.connected = TRUE]

\* one statement of update_targets' snapshot: the copy of field f
copy_field(sn, g, f) ==
    CASE f = "weapon_cat" -> [sn EXCEPT !.weapon_cat = g.weapon_cat]
      [] f = "weapon_name" -> [sn EXCEPT !.weapon_name = g.weapon_name]
      [] f = "round_phase" -> [sn EXCEPT !.round_phase = g.round_phase]
      [] f = "weapon_speed" -> [sn EXCEPT !.weapon_speed = g.weapon_speed]
      [] f = "gsi_active" -> [sn EXCEPT !.gsi_active = g.connected]

\* res.seen: the contents the cache has had after each complete update
InitCache ==
    /\ InitCore
    /\ pc = [main |-> "tick", gsi |-> "recv"]
    /\ args = [adaptive_mode |-> TRUE, watch_mode |-> FALSE, demo_mode |-> FALSE]
    /\ aggro = FALSE
    /\ event = "none"
    /\ g_running = TRUE
    /\ g_hid = "open"
    /\ g_adaptive = TRUE
    /\ g_gsi_thread = "open"
    /\ wsa = 1
    /\ sdk = "init"
    /\ rel = RelZero
    /\ rc = -1
    /\ dev = [handle |-> "open", active_profile |-> PROFILE_IDX]
    /\ feat = <<>>
    /\ hs = "ok"
    /\ arg = <<>>
    /\ res = [seen |-> {GsiZero}]

cacheRest == <<sessVars, now, axisVars, velVars, writerVars, wire, args, aggro, event,
               g_running, g_hid, g_adaptive, g_gsi_thread, wsa, sdk, rel>>

\* gsi_thread: select, accept, recv, send of the 200, closesocket; then the
\* test if (body && content_length > 0)
CacheGsiRecv ==
    /\ pc["gsi"] = "recv"
    /\ frame < MaxRequests
    /\ \E req \in CacheRequests :
          /\ arg' = req
          /\ pc' = [pc EXCEPT !["gsi"] =
                      IF req.body /\ req.content_length > 0 THEN "enter" ELSE "recv"]
    /\ frame' = frame + 1
    /\ UNCHANGED <<cacheRest, res, gsiVars>>

\* parse_gsi_json going on without EnterCriticalSection
CacheGsiEnter_nolock ==
    /\ pc["gsi"] = "enter"
    /\ res' = [res EXCEPT !.seen = @ \cup {[gsi_store(g_gsi, arg.scan) EXCEPT !.lock = "free"]}]
    /\ pc' = [pc EXCEPT !["gsi"] = StoreFields[1]]
    /\ UNCHANGED <<cacheRest, arg, frame, gsiVars>>

\* parse_gsi_json: EnterCriticalSection(&g_gsi.lock)
CacheGsiEnter ==
    /\ pc["gsi"] = "enter"
    /\ g_gsi.lock = "free"
    /\ g_gsi' = [g_gsi EXCEPT !.lock = "gsi"]
    /\ res' = [res EXCEPT !.seen = @ \cup {gsi_store(g_gsi, arg.scan)}]
    /\ pc' = [pc EXCEPT !["gsi"] = StoreFields[1]]
    /\ UNCHANGED <<cacheRest, arg, frame, snap>>

\* parse_gsi_json: one store into g_gsi
CacheGsiStore ==
    /\ pc["gsi"] \in {StoreFields[i] : i \in 1..Len(StoreFields)}
    /\ g_gsi' = store_field(g_gsi, pc["gsi"], arg.scan)
    /\ pc' = [pc EXCEPT !["gsi"] = After(StoreFields, pc["gsi"])]
    /\ UNCHANGED <<cacheRest, pureVars, frame, snap>>

\* parse_gsi_json: LeaveCriticalSection(&g_gsi.lock)
CacheGsiLeave ==
    /\ pc["gsi"] = "leave"
    /\ g_gsi' = [g_gsi EXCEPT !.lock = "free"]
    /\ pc' = [pc EXCEPT !["gsi"] = "recv"]
    /\ UNCHANGED <<cacheRest, pureVars, frame, snap>>

\* update_targets: EnterCriticalSection(&g_gsi.lock)
CacheMainEnter ==
    /\ pc["main"] = "tick"
    /\ g_gsi.lock = "free"
    /\ g_gsi' = [g_gsi EXCEPT !.lock = "main"]
    /\ pc' = [pc EXCEPT !["main"] = CopyFields[1]]
    /\ UNCHANGED <<cacheRest, pureVars, frame, snap>>

\* update_targets: one copy out of g_gsi
CacheMainCopy ==
    /\ pc["main"] \in {CopyFields[i] : i \in 1..Len(CopyFields)}
    /\ snap' = copy_field(snap, g_gsi, pc["main"])
    /\ pc' = [pc EXCEPT !["main"] = After(CopyFields, pc["main"])]
    /\ UNCHANGED <<cacheRest, pureVars, frame, g_gsi>>

\* update_targets: LeaveCriticalSection(&g_gsi.lock)
CacheMainLeave ==
    /\ pc["main"] = "leave"
    /\ g_gsi' = [g_gsi EXCEPT !.lock = "free"]
    /\ pc' = [pc EXCEPT !["main"] = "io"]
    /\ UNCHANGED <<cacheRest, pureVars, frame, snap>>

\* the rest of the iteration: the targets, do_write's HID writes, the next
\* poll of the keys
CacheMainIo ==
    /\ pc["main"] = "io"
    /\ pc' = [pc EXCEPT !["main"] = "tick"]
    /\ UNCHANGED <<cacheRest, pureVars, frame, gsiVars>>

NextCache ==
    \/ CacheGsiRecv
    \/ CacheGsiEnter
    \/ CacheGsiStore
    \/ CacheGsiLeave
    \/ CacheMainEnter
    \/ CacheMainCopy
    \/ CacheMainLeave
    \/ CacheMainIo

SpecCache == InitCache /\ [][NextCache]_vars

\* the cache without its lock
CacheData(g) == [g EXCEPT !.lock = "free"]

\* C27: every snapshot the main loop takes equals the cache contents
\* between two complete ingest updates (weapon name, category, speed, round
\* phase, connected flag; never a mixture), the cache is written only by
\* the ingest thread, and neither thread holds the cache lock while doing
\* socket or HID I/O.
C27_Snapshot ==
    /\ [](/\ pc["main"] \in {"leave", "io"} =>
               \E c \in res.seen : snap = gsi_snapshot(c)
          /\ pc["gsi"] = "recv" => g_gsi.lock # "gsi"
          /\ pc["main"] = "io" => g_gsi.lock # "main")
    /\ [][ CacheData(g_gsi') # CacheData(g_gsi) =>
             /\ g_gsi.lock = "gsi"
             /\ pc["gsi"] # pc'["gsi"] /\ pc["main"] = pc'["main"] ]_vars

\* the main loop holds the snapshot of the first update while the ingest
\* thread is half-way through storing the second
C27_Witness ==
    /\ pc["main"] = "io"
    /\ snap.weapon_name = "weapon_ak47" /\ snap.round_phase = "live" /\ snap.gsi_active
    /\ pc["gsi"] = "round_phase"
    /\ g_gsi.weapon_name = "weapon_hegrenade" /\ g_gsi.round_phase = "live"

=============================================================================
